---------------------------- MODULE Spec2Model ----------------------------
(***************************************************************************)
(* A model of golz4: the streaming Writer and the legacy reader of         *)
(* lz4.go, the CompressReader / DecompressReader pair, and the             *)
(* length-header routines of header.go.                                    *)
(*                                                                         *)
(* Bytes are naturals in 0..255.  A Go []byte is a sequence; a C buffer    *)
(* obtained from malloc is the sequence of the bytes written to it so far  *)
(* (a copy overwrites a prefix and keeps the rest).                        *)
(*                                                                         *)
(* The block size is scaled down (BlockSize instead of 64 KiB) and the     *)
(* liblz4 block codec, which the repository only calls, is a scaled LZ4    *)
(* block format: the same token / literals / offset / match-length         *)
(* sequences, with a one-byte offset and a minimum match of MinMatch.      *)
(***************************************************************************)
EXTENDS Integers, Sequences, FiniteSets, TLC

\* ------------------------------------------------------------ bounds
\* The block size of the model (64 KiB in the source).
BlockSize == 3
\* Longest argument of one Write call, and longest one-shot message.
MaxWriteLen == 6
\* Most bytes written to one Writer, or held by one source, in a run.
MaxTotal == 6
\* Longest destination handed to a Read call.
MaxDst == 3
\* Most Write calls made on one Writer in a run.
MaxWrites == 3
\* Longest input of a stream that is cut or altered before it is decoded.
MaxBadLen == 4
\* Most Close calls made on one instance in a run.
MaxCloses == 2
MaxOkWrites == 4
MaxShort == 1
MaxOkCalls == 2
MaxFaultWrites == 2
MaxPartLen == 2
ResumeFrames == 3
\* Write calls that make a stream to be drained, and the longest of them.
DrainWrites == 2
MaxDrainLen == 4
\* Longest message whose packed form is handed, altered or not, to a decoder.
MaxRawLen == 3
\* Longest input whose compression bound is computed.
MaxBoundLen == 510
\* The bytes payloads are made of.
Alphabet == {97, 98}

\* ------------------------------------------------------------ constants
streamingBlockSize == BlockSize
blockHeaderSize == 4
boundedStreamingBlockSize == streamingBlockSize + streamingBlockSize \div 255 + 16

\* Shortest match the scaled codec encodes (MINMATCH of the block format).
MinMatch == 2

min(a, b) == IF a < b THEN a ELSE b

\* Mutant: the division by 256.
CompressBound_div256(n) == n + ((n \div 256) + 16)

\* CompressBound, as a function of len(in).
CompressBound(n) == n + ((n \div 255) + 16)

\* Every byte sequence over Alphabet of length at most n.
SeqsUpTo(n) == UNION {[1..k -> Alphabet] : k \in 0..n}

\* Go's copy(dst, src) into a buffer at least as long as src may become:
\* the first len(src) bytes are replaced, the rest stays.
copy(buf, src) == src \o SubSeq(buf, Len(src) + 1, Len(buf))

\* binary.LittleEndian.PutUint32(b, uint32(n)), for n a non-negative C int, which
\* uint32() leaves as it is.
PutUint32(n) ==
    << n % 256, (n \div 256) % 256, (n \div 65536) % 256, (n \div 16777216) % 256 >>

\* binary.LittleEndian.Uint32(b) of a 4-byte sequence
Uint32(b) == b[1] + 256 * b[2] + 65536 * b[3] + 16777216 * b[4]

\* ------------------------------------------------------------ block codec
\* The bytes that extend a 4-bit length field holding 15: 255, 255, ..., rest.
RECURSIVE LenExtBytes(_)
LenExtBytes(m) == IF m < 255 THEN <<m>> ELSE <<255>> \o LenExtBytes(m - 255)

LenExt(n) == IF n < 15 THEN <<>> ELSE LenExtBytes(n - 15)

\* Length of the match of src[i..] against the window dict \o src at distance off.
RECURSIVE MatchLen(_, _, _, _, _)
MatchLen(dict, src, i, off, acc) ==
    LET W == dict \o src
        cur == Len(dict) + i + acc
    IN  IF i + acc > Len(src) THEN acc
        ELSE IF W[cur - off] = W[cur] THEN MatchLen(dict, src, i, off, acc + 1)
        ELSE acc

\* The longest match at position i: its length and the smallest distance giving it.
BestMatch(dict, src, i) ==
    LET offs == 1..min(Len(dict) + i - 1, 255)
        best == IF offs = {} THEN 0
                ELSE CHOOSE l \in {MatchLen(dict, src, i, o, 0) : o \in offs} :
                        \A o \in offs : MatchLen(dict, src, i, o, 0) <= l
    IN  [len |-> best,
         off |-> IF best = 0 THEN 0
                 ELSE CHOOSE o \in offs :
                        /\ MatchLen(dict, src, i, o, 0) = best
                        /\ \A o2 \in offs : MatchLen(dict, src, i, o2, 0) = best => o <= o2]

\* One sequence: token, literal-length extension, literals, and unless it is
\* the last one, offset and match-length extension.
LZ4_sequence(lits, off, mlen) ==
    <<min(Len(lits), 15) * 16 + min(mlen - MinMatch, 15)>>
        \o LenExt(Len(lits)) \o lits \o <<off>> \o LenExt(mlen - MinMatch)

LZ4_lastSequence(lits) ==
    <<min(Len(lits), 15) * 16>> \o LenExt(Len(lits)) \o lits

\* Greedy parse of src from position i against dict and the bytes before i;
\* lits are the literals not yet emitted, m the longest match at i.
RECURSIVE LZ4_encode(_, _, _, _)
LZ4_encodeAt(dict, src, i, lits, m) ==
    IF m.len >= MinMatch
    THEN LZ4_sequence(lits, m.off, m.len) \o LZ4_encode(dict, src, i + m.len, <<>>)
    ELSE LZ4_encode(dict, src, i + 1, Append(lits, src[i]))

LZ4_encode(dict, src, i, lits) ==
    IF i > Len(src) THEN LZ4_lastSequence(lits)
    ELSE LZ4_encodeAt(dict, src, i, lits, BestMatch(dict, src, i))

\* Reading a length field whose 4 bits are nib, extension bytes from in[ip..].
RECURSIVE ReadLenExt(_, _, _)
ReadLenExt(in, ip, acc) ==
    IF ip > Len(in) THEN [ok |-> FALSE, len |-> acc, ip |-> ip]
    ELSE IF in[ip] = 255 THEN ReadLenExt(in, ip + 1, acc + 255)
    ELSE [ok |-> TRUE, len |-> acc + in[ip], ip |-> ip + 1]

ReadLen(in, ip, nib) ==
    IF nib < 15 THEN [ok |-> TRUE, len |-> nib, ip |-> ip] ELSE ReadLenExt(in, ip, 15)

\* A match copied byte by byte, so that it may overlap the bytes it produces.
RECURSIVE CopyMatch(_, _, _, _)
CopyMatch(dict, out, off, mlen) ==
    IF mlen = 0 THEN out
    ELSE CopyMatch(dict, Append(out, (dict \o out)[Len(dict) + Len(out) + 1 - off]),
                   off, mlen - 1)

\* Decoding in[ip..] after out, at most maxOut bytes in all.  n is the number
\* of bytes decoded, or negative for a malformed block (liblz4 returns
\* -(position in the input) - 1).
RECURSIVE LZ4_decode(_, _, _, _, _)
\* The match of a sequence: off at in[ip1], its length field read as ml.
LZ4_decodeMatch(dict, in, ip1, out1, maxOut, ml) ==
    IF in[ip1] = 0 \/ in[ip1] > Len(dict) + Len(out1) THEN [n |-> -ip1, out |-> out1]
    ELSE IF ~ml.ok THEN [n |-> -ml.ip, out |-> out1]
    ELSE IF Len(out1) + ml.len + MinMatch > maxOut THEN [n |-> -ml.ip, out |-> out1]
    ELSE LZ4_decode(dict, in, ml.ip, CopyMatch(dict, out1, in[ip1], ml.len + MinMatch),
                    maxOut)

\* The literals of the sequence whose token is in[ip], their length read as ll.
\* The block ends with the literals of its last sequence.
LZ4_decodeLiterals(dict, in, ip, out, maxOut, ll) ==
    IF ~ll.ok THEN [n |-> -ll.ip, out |-> out]
    ELSE IF ll.ip + ll.len - 1 > Len(in) THEN [n |-> -ll.ip, out |-> out]
    ELSE IF Len(out) + ll.len > maxOut THEN [n |-> -ll.ip, out |-> out]
    ELSE IF ll.ip + ll.len > Len(in)
    THEN [n |-> Len(out) + ll.len, out |-> out \o SubSeq(in, ll.ip, ll.ip + ll.len - 1)]
    ELSE LZ4_decodeMatch(dict, in, ll.ip + ll.len,
                         out \o SubSeq(in, ll.ip, ll.ip + ll.len - 1), maxOut,
                         ReadLen(in, ll.ip + ll.len + 1, in[ip] % 16))

LZ4_decode(dict, in, ip, out, maxOut) ==
    IF ip > Len(in) THEN [n |-> -ip, out |-> out]
    ELSE LZ4_decodeLiterals(dict, in, ip, out, maxOut, ReadLen(in, ip + 1, in[ip] \div 16))

\* The result of a one-shot compression whose encoding is enc: 0 when the
\* destination of outCap bytes is too small.
LZ4_compressResult(enc, outCap) ==
    IF Len(enc) > outCap THEN [n |-> 0, out |-> <<>>] ELSE [n |-> Len(enc), out |-> enc]

\* C.LZ4_compress_default(in, out, len(in), len(out))
LZ4_compress_default(in, outCap) == LZ4_compressResult(LZ4_encode(<<>>, in, 1, <<>>), outCap)

\* C.LZ4_decompress_safe(in, out, len(in), len(out))
LZ4_decompress_safe(in, outCap) == LZ4_decode(<<>>, in, 1, <<>>, outCap)

\* The result of a streaming compression of the srcSize bytes at slot whose
\* encoding against dict is enc.  okCalls is the number of calls the codec
\* still answers before it reports a failure (negative: it never does).
LZ4_continueResult(enc, dict, slot, srcSize, dstCap, okCalls) ==
    [written |-> IF Len(enc) > dstCap THEN 0 ELSE Len(enc),
     out |-> enc,
     dict |-> dict,
     stream |-> [dictSlot |-> slot, dictSize |-> srcSize,
                 okCalls |-> IF okCalls > 0 THEN okCalls - 1 ELSE okCalls]]

\* The codec reports a failure: nothing is produced and the stream stays as it is.
LZ4_continueFailure(stream, dict) ==
    [written |-> 0, out |-> <<>>, dict |-> dict, stream |-> stream]

\* C.LZ4_compress_fast_continue(stream, src, dst, srcSize, dstCapacity, 1), with
\* src the first srcSize bytes of buffer slot of mem.  The stream remembers
\* where the previous block lies, not its bytes: the dictionary is what that
\* place holds when the call is made.
LZ4_compress_fast_continue(stream, mem, slot, srcSize, dstCap) ==
    IF stream.okCalls = 0
    THEN LZ4_continueFailure(stream, SubSeq(mem[stream.dictSlot], 1, stream.dictSize))
    ELSE LZ4_continueResult(
             LZ4_encode(SubSeq(mem[stream.dictSlot], 1, stream.dictSize),
                        SubSeq(mem[slot], 1, srcSize), 1, <<>>),
             SubSeq(mem[stream.dictSlot], 1, stream.dictSize), slot, srcSize, dstCap,
             stream.okCalls)

\* The result of a streaming decompression into slot that decoded as d.
LZ4_decodeResult(stream, mem, slot, d) ==
    [decompressed |-> d.n,
     mem |-> [mem EXCEPT ![slot] = copy(@, d.out)],
     stream |-> IF d.n <= 0 THEN stream ELSE [prefixSlot |-> slot, prefixSize |-> d.n]]

\* C.LZ4_decompress_safe_continue(stream, src, dst, compressedSize, maxOut), with
\* dst buffer slot of mem.  The previous block is the dictionary, read where it
\* was decoded; a failed call leaves the stream as it was.
LZ4_decompress_safe_continue(stream, mem, in, slot, maxOut) ==
    LZ4_decodeResult(stream, mem, slot,
        LZ4_decode(SubSeq(mem[stream.prefixSlot], 1, stream.prefixSize), in, 1, <<>>,
                   maxOut))

\* ------------------------------------------------------------ io
\* io.ReadFull(rdr, buf) with len(buf) = n, rdr a bytes.Buffer or bytes.Reader
\* holding src of which pos bytes are consumed: n bytes, or io.EOF when none
\* is left, or io.ErrUnexpectedEOF after the fewer bytes that were left.
io_ReadFull(src, pos, n) ==
    IF n = 0 THEN [n |-> 0, err |-> "nil", data |-> <<>>, pos |-> pos]
    ELSE IF Len(src) - pos >= n
    THEN [n |-> n, err |-> "nil", data |-> SubSeq(src, pos + 1, pos + n), pos |-> pos + n]
    ELSE IF Len(src) - pos = 0 THEN [n |-> 0, err |-> "EOF", data |-> <<>>, pos |-> pos]
    ELSE [n |-> Len(src) - pos, err |-> "ErrUnexpectedEOF",
          data |-> SubSeq(src, pos + 1, Len(src)), pos |-> Len(src)]

\* ------------------------------------------------------------ Writer
\* An io.Writer that accepts okWrites more Write calls and fails every call
\* after them, having taken at most short bytes, and fewer than all, of the
\* failing call's argument (okWrites negative: it never fails).  calls counts
\* the Write calls and failures those that failed.
io_Writer(okWrites, short) ==
    [okWrites |-> okWrites, short |-> short, calls |-> 0, failures |-> 0]

\* underlyingWriter.Write(p) on a sink holding snk
io_Write(uw, snk, p) ==
    IF uw.okWrites = 0
    THEN [uw |-> [uw EXCEPT !.calls = @ + 1, !.failures = @ + 1],
          sink |-> snk \o SubSeq(p, 1, min(uw.short, Len(p) - 1)),
          err |-> "sink error"]
    ELSE [uw |-> [uw EXCEPT !.calls = @ + 1,
                            !.okWrites = IF @ > 0 THEN @ - 1 ELSE @],
          sink |-> snk \o p,
          err |-> "nil"]

\* NewWriter(uw)
NewWriterOver(uw) ==
    [underlyingWriter |-> uw,
     compressionBuffer |-> [i \in 0..1 |-> <<>>],
     lz4Stream |-> [dictSlot |-> 0, dictSize |-> 0, okCalls |-> -1],
     inpBufIndex |-> 0,
     totalCompressedWritten |-> 0]

\* A Writer over a sink that never fails.
NewWriter == NewWriterOver(io_Writer(-1, 0))
\* Mutant: the same slot every time.
Writer_nextInputBuffer_sameSlot(w0) ==
    [w0 EXCEPT !.inpBufIndex = w0.inpBufIndex % 2]

\* Mutant: the slot switched only every other block.
Writer_nextInputBuffer_stuck(w0) ==
    [w0 EXCEPT !.inpBufIndex = IF w0.totalCompressedWritten = 0 THEN 1 ELSE 0]

Writer_nextInputBuffer(w0) ==
    [w0 EXCEPT !.inpBufIndex = (w0.inpBufIndex + 1) % 2]
\* Mutant: the header holds the length of the whole frame.
Writer_writeFrameOut_lengthWithHeader(w2, snk, src, c) ==
    [w |-> [w2 EXCEPT !.lz4Stream = c.stream,
                      !.totalCompressedWritten = @ + c.written + 4],
     sink |-> snk \o PutUint32(c.written + 4) \o SubSeq(c.out, 1, c.written),
     n |-> Len(src), err |-> "nil",
     call |-> [slot |-> w2.inpBufIndex, src |-> src, dict |-> c.dict,
               written |-> c.written]]

\* writeFrame returns 0 and the error of the sink's Write that returned wr.
Writer_writeFrameFailed(w2, src, c, wr) ==
    [w |-> [w2 EXCEPT !.lz4Stream = c.stream, !.underlyingWriter = wr.uw],
     sink |-> wr.sink, n |-> 0, err |-> wr.err,
     call |-> [slot |-> w2.inpBufIndex, src |-> src, dict |-> c.dict,
               written |-> c.written]]

\* writeFrame after the payload went to the sink (pw).
Writer_writeFramePayload(w2, src, c, pw) ==
    IF pw.err # "nil"
    THEN Writer_writeFrameFailed(w2, src, c, pw)
    ELSE [w |-> [w2 EXCEPT !.lz4Stream = c.stream,
                           !.underlyingWriter = pw.uw,
                           !.totalCompressedWritten = @ + c.written + 4],
          sink |-> pw.sink,
          n |-> Len(src), err |-> "nil",
          call |-> [slot |-> w2.inpBufIndex, src |-> src, dict |-> c.dict,
               written |-> c.written]]

\* Mutant: the error of the header's write is not looked at.
Writer_writeFrameHeader_errorIgnored(w2, src, c, hw) ==
    Writer_writeFramePayload(w2, src, c,
        io_Write(hw.uw, hw.sink, SubSeq(c.out, 1, c.written)))

\* writeFrame after the header went to the sink (hw).
Writer_writeFrameHeader(w2, src, c, hw) ==
    IF hw.err # "nil"
    THEN Writer_writeFrameFailed(w2, src, c, hw)
    ELSE Writer_writeFramePayload(w2, src, c,
             io_Write(hw.uw, hw.sink, SubSeq(c.out, 1, c.written)))

\* Mutant: the size the codec reports is not looked at.
Writer_writeFrameOut_sizeUnchecked(w2, snk, src, c) ==
    Writer_writeFrameHeader(w2, src, c,
        io_Write(w2.underlyingWriter, snk, PutUint32(c.written)))

\* writeFrame after the codec call c on the block staged in w2: the header and
\* the payload go to the sink snk.  call records the codec call.
Writer_writeFrameOut(w2, snk, src, c) ==
    IF c.written <= 0
    THEN [w |-> [w2 EXCEPT !.lz4Stream = c.stream], sink |-> snk, n |-> 0,
          err |-> "error compressing",
          call |-> [slot |-> w2.inpBufIndex, src |-> src, dict |-> c.dict,
               written |-> c.written]]
    ELSE Writer_writeFrameHeader(w2, src, c,
             io_Write(w2.underlyingWriter, snk, PutUint32(c.written)))

\* writeFrame once src is copied into the next slot (w2).
Writer_writeFrameStaged(w2, snk, src) ==
    Writer_writeFrameOut(w2, snk, src,
        LZ4_compress_fast_continue(w2.lz4Stream, w2.compressionBuffer, w2.inpBufIndex,
                                   Len(src), boundedStreamingBlockSize))

\* inpPtr := w.nextInputBuffer(); copy(inpPtr, src)
Writer_stage(w1, src) ==
    [w1 EXCEPT !.compressionBuffer[w1.inpBufIndex] = copy(@, src)]

Writer_writeFrame(w0, snk, src) ==
    Writer_writeFrameStaged(Writer_stage(Writer_nextInputBuffer(w0), src), snk, src)

\* The loop of Write: blocks of streamingBlockSize bytes off the front of src.
RECURSIVE Writer_WriteLoop(_, _, _, _, _, _)
\* Mutant: the block whose frame failed is counted as consumed.
Writer_WriteLoopNext_countsFailedBlock(src, remainingBytes, totalWritten, calls, f) ==
    IF f.err # "nil"
    THEN [w |-> f.w, sink |-> f.sink, n |-> totalWritten + Len(f.call.src),
          err |-> f.err, calls |-> Append(calls, f.call)]
    ELSE Writer_WriteLoop(f.w, f.sink, src, remainingBytes - f.n, totalWritten + f.n,
                          Append(calls, f.call))

\* The rest of one iteration, f being what writeFrame returned.
Writer_WriteLoopNext(src, remainingBytes, totalWritten, calls, f) ==
    IF f.err # "nil"
    THEN [w |-> f.w, sink |-> f.sink, n |-> totalWritten, err |-> f.err,
          calls |-> Append(calls, f.call)]
    ELSE Writer_WriteLoop(f.w, f.sink, src, remainingBytes - f.n, totalWritten + f.n,
                          Append(calls, f.call))

\* Mutant: the blocks are taken off the end of src, the last one first.
Writer_WriteLoop_lastFirst(w0, snk, src, remainingBytes, totalWritten, calls) ==
    IF remainingBytes > 0
    THEN Writer_WriteLoopNext(src, remainingBytes, totalWritten, calls,
             Writer_writeFrame(w0, snk,
                 SubSeq(src,
                        IF remainingBytes > streamingBlockSize
                        THEN remainingBytes - streamingBlockSize + 1 ELSE 1,
                        remainingBytes)))
    ELSE [w |-> w0, sink |-> snk, n |-> totalWritten, err |-> "nil", calls |-> calls]

Writer_WriteLoop(w0, snk, src, remainingBytes, totalWritten, calls) ==
    IF remainingBytes > 0
    THEN Writer_WriteLoopNext(src, remainingBytes, totalWritten, calls,
             Writer_writeFrame(w0, snk,
                 SubSeq(src, totalWritten + 1,
                        IF totalWritten + streamingBlockSize > Len(src)
                        THEN Len(src) ELSE totalWritten + streamingBlockSize)))
    ELSE [w |-> w0, sink |-> snk, n |-> totalWritten, err |-> "nil", calls |-> calls]
\* Mutant: Write as it was before it cut its input: one frame for all of src.
Writer_Write_oneFrame(w0, snk, src) ==
    IF Len(src) = 0
    THEN [w |-> w0, sink |-> snk, n |-> 0, err |-> "nil", calls |-> <<>>]
    ELSE Writer_WriteLoopNext(src, 0, 0, <<>>, Writer_writeFrame(w0, snk, src))

Writer_Write(w0, snk, src) == Writer_WriteLoop(w0, snk, src, Len(src), 0, <<>>)

\* ------------------------------------------------------------ reader
\* pending is nil (pendingNil) or a slice; left and right are the two buffers.
NewReader ==
    [lz4Stream |-> [prefixSlot |-> "left", prefixSize |-> 0],
     pending |-> <<>>,
     pendingNil |-> TRUE,
     left |-> <<>>,
     right |-> <<>>,
     isLeft |-> TRUE]

\* What a Read that touched neither the source nor the codec reports: the
\* reads of the source, the codec calls, and the block the codec returned.
NoWork == [srcReads |-> 0, codecCalls |-> 0, decompressed |-> 0, block |-> <<>>]
\* Mutant: the length header read as big-endian.
reader_readSizeOf_bigEndian(rf) ==
    IF rf.err # "nil" THEN [n |-> 0, err |-> rf.err, pos |-> rf.pos]
    ELSE [n |-> rf.data[4] + 256 * rf.data[3] + 65536 * rf.data[2] + 16777216 * rf.data[1],
          err |-> "nil", pos |-> rf.pos]

\* Mutant: end of input at the header reported as no error.
reader_readSizeOf_eofSwallowed(rf) ==
    IF rf.err = "ErrUnexpectedEOF" THEN [n |-> 0, err |-> rf.err, pos |-> rf.pos]
    ELSE IF rf.err # "nil" THEN [n |-> 0, err |-> "nil", pos |-> rf.pos]
    ELSE [n |-> Uint32(rf.data), err |-> "nil", pos |-> rf.pos]

\* readSize, rf being what io.ReadFull(rdr, temp[:]) returned.
reader_readSizeOf(rf) ==
    IF rf.err # "nil" THEN [n |-> 0, err |-> rf.err, pos |-> rf.pos]
    ELSE [n |-> Uint32(rf.data), err |-> "nil", pos |-> rf.pos]

reader_readSize(src, pos) == reader_readSizeOf(io_ReadFull(src, pos, 4))
\* Mutant: a drained tail left as an empty slice instead of nil.
reader_readFromPending_neverNil(r0, pos, dstLen) ==
    LET copySize == min(dstLen, Len(r0.pending))
    IN  [r |-> [r0 EXCEPT !.pending = SubSeq(@, copySize + 1, Len(@))],
         pos |-> pos, n |-> copySize, err |-> "nil",
         data |-> SubSeq(r0.pending, 1, copySize), work |-> NoWork]

\* Mutant: the tail cleared after any read from it.
reader_readFromPending_dropsRest(r0, pos, dstLen) ==
    LET copySize == min(dstLen, Len(r0.pending))
    IN  [r |-> [r0 EXCEPT !.pending = <<>>, !.pendingNil = TRUE],
         pos |-> pos, n |-> copySize, err |-> "nil",
         data |-> SubSeq(r0.pending, 1, copySize), work |-> NoWork]

reader_readFromPending(r0, pos, dstLen) ==
    LET copySize == min(dstLen, Len(r0.pending))
        copied == copySize
    IN  [r |-> IF copied = Len(r0.pending)
               THEN [r0 EXCEPT !.pending = <<>>, !.pendingNil = TRUE]
               ELSE [r0 EXCEPT !.pending = SubSeq(@, copied + 1, Len(@))],
         pos |-> pos, n |-> copied, err |-> "nil",
         data |-> SubSeq(r0.pending, 1, copySize), work |-> NoWork]

\* Mutant: a negative size taken for the end of the stream.
reader_ReadDecoded_errorAsEOF(r1, pos, dstLen, ptr, d) ==
    IF d.decompressed < 0
    THEN [r |-> r1, pos |-> pos, n |-> 0, err |-> "EOF", data |-> <<>>,
          work |-> [srcReads |-> 2, codecCalls |-> 1, decompressed |-> d.decompressed,
                    block |-> <<>>]]
    ELSE [r |-> IF d.decompressed > dstLen
                THEN [r1 EXCEPT !.lz4Stream = d.stream, ![ptr] = d.mem[ptr],
                                !.pending = SubSeq(d.mem[ptr], dstLen + 1, d.decompressed),
                                !.pendingNil = FALSE]
                ELSE [r1 EXCEPT !.lz4Stream = d.stream, ![ptr] = d.mem[ptr]],
          pos |-> pos, n |-> min(d.decompressed, dstLen), err |-> "nil",
          data |-> SubSeq(d.mem[ptr], 1, min(d.decompressed, dstLen)),
          work |-> [srcReads |-> 2, codecCalls |-> 1, decompressed |-> d.decompressed,
                    block |-> SubSeq(d.mem[ptr], 1, d.decompressed)]]

\* Mutant: a tail is kept also when the block fills dst exactly.
reader_ReadDecoded_tailWhenFull(r1, pos, dstLen, ptr, d) ==
    IF d.decompressed < 0
    THEN [r |-> [r1 EXCEPT !.lz4Stream = d.stream, ![ptr] = d.mem[ptr]],
          pos |-> pos, n |-> d.decompressed, err |-> "error decompressing",
          data |-> <<>>,
          work |-> [srcReads |-> 2, codecCalls |-> 1, decompressed |-> d.decompressed,
                    block |-> <<>>]]
    ELSE [r |-> IF d.decompressed >= dstLen
                THEN [r1 EXCEPT !.lz4Stream = d.stream, ![ptr] = d.mem[ptr],
                                !.pending = SubSeq(d.mem[ptr], dstLen + 1, d.decompressed),
                                !.pendingNil = FALSE]
                ELSE [r1 EXCEPT !.lz4Stream = d.stream, ![ptr] = d.mem[ptr]],
          pos |-> pos, n |-> min(d.decompressed, dstLen), err |-> "nil",
          data |-> SubSeq(d.mem[ptr], 1, min(d.decompressed, dstLen)),
          work |-> [srcReads |-> 2, codecCalls |-> 1, decompressed |-> d.decompressed,
                    block |-> SubSeq(d.mem[ptr], 1, d.decompressed)]]

\* Mutant: the tail starts one byte before the first byte not copied.
reader_ReadDecoded_tailOneEarly(r1, pos, dstLen, ptr, d) ==
    IF d.decompressed < 0
    THEN [r |-> [r1 EXCEPT !.lz4Stream = d.stream, ![ptr] = d.mem[ptr]],
          pos |-> pos, n |-> d.decompressed, err |-> "error decompressing",
          data |-> <<>>,
          work |-> [srcReads |-> 2, codecCalls |-> 1, decompressed |-> d.decompressed,
                    block |-> <<>>]]
    ELSE [r |-> IF d.decompressed > dstLen
                THEN [r1 EXCEPT !.lz4Stream = d.stream, ![ptr] = d.mem[ptr],
                                !.pending = SubSeq(d.mem[ptr], dstLen, d.decompressed),
                                !.pendingNil = FALSE]
                ELSE [r1 EXCEPT !.lz4Stream = d.stream, ![ptr] = d.mem[ptr]],
          pos |-> pos, n |-> min(d.decompressed, dstLen), err |-> "nil",
          data |-> SubSeq(d.mem[ptr], 1, min(d.decompressed, dstLen)),
          work |-> [srcReads |-> 2, codecCalls |-> 1, decompressed |-> d.decompressed,
                    block |-> SubSeq(d.mem[ptr], 1, d.decompressed)]]

\* Read after the codec call d into buffer ptr of r1: mySlice is the block,
\* of which dst takes what fits and pending keeps the rest.
reader_ReadDecoded(r1, pos, dstLen, ptr, d) ==
    LET decompressed == d.decompressed
        mySlice == SubSeq(d.mem[ptr], 1, decompressed)
        copySize == min(decompressed, dstLen)
        copied == copySize
        r2 == [r1 EXCEPT !.lz4Stream = d.stream, ![ptr] = d.mem[ptr]]
    IN  IF decompressed < 0
        THEN [r |-> r2, pos |-> pos, n |-> decompressed, err |-> "error decompressing",
              data |-> <<>>,
              work |-> [srcReads |-> 2, codecCalls |-> 1, decompressed |-> decompressed,
                        block |-> <<>>]]
        ELSE [r |-> IF decompressed > dstLen
                    THEN [r2 EXCEPT !.pending = SubSeq(mySlice, copied + 1, Len(mySlice)),
                                    !.pendingNil = FALSE]
                    ELSE r2,
              pos |-> pos, n |-> copied, err |-> "nil",
              data |-> SubSeq(mySlice, 1, copySize),
              work |-> [srcReads |-> 2, codecCalls |-> 1, decompressed |-> decompressed,
                        block |-> mySlice]]

\* Read once the frame's payload is read as rf: the buffer is switched, then
\* the codec is called.
reader_ReadPayload(r0, dstLen, rf) ==
    IF rf.err # "nil"
    THEN [r |-> r0, pos |-> rf.pos, n |-> 0, err |-> rf.err, data |-> <<>>,
          work |-> [NoWork EXCEPT !.srcReads = 2]]
    ELSE reader_ReadDecoded([r0 EXCEPT !.isLeft = ~r0.isLeft], rf.pos, dstLen,
             IF r0.isLeft THEN "left" ELSE "right",
             LZ4_decompress_safe_continue(r0.lz4Stream, r0, rf.data,
                 IF r0.isLeft THEN "left" ELSE "right", streamingBlockSize))

\* Mutant: one byte more than the length announces is read.
reader_ReadFrame_oneMore(r0, src, dstLen, sz) ==
    IF sz.err # "nil"
    THEN [r |-> r0, pos |-> sz.pos, n |-> 0, err |-> sz.err, data |-> <<>>,
          work |-> [NoWork EXCEPT !.srcReads = 1]]
    ELSE IF sz.n > boundedStreamingBlockSize
    THEN [r |-> r0, pos |-> sz.pos, n |-> 0, err |-> "panic", data |-> <<>>,
          work |-> [NoWork EXCEPT !.srcReads = 1]]
    ELSE reader_ReadPayload(r0, dstLen, io_ReadFull(src, sz.pos, sz.n + 1))

\* Mutant: the end of the source reported as a Read of no byte.
reader_ReadFrame_eofAsNil(r0, src, dstLen, sz) ==
    IF sz.err # "nil"
    THEN [r |-> r0, pos |-> sz.pos, n |-> 0,
          err |-> IF sz.err = "EOF" THEN "nil" ELSE sz.err, data |-> <<>>,
          work |-> [NoWork EXCEPT !.srcReads = 1]]
    ELSE IF sz.n > boundedStreamingBlockSize
    THEN [r |-> r0, pos |-> sz.pos, n |-> 0, err |-> "panic", data |-> <<>>,
          work |-> [NoWork EXCEPT !.srcReads = 1]]
    ELSE reader_ReadPayload(r0, dstLen, io_ReadFull(src, sz.pos, sz.n))

\* Read once the frame's length is read as sz.
reader_ReadFrame(r0, src, dstLen, sz) ==
    IF sz.err # "nil"
    THEN [r |-> r0, pos |-> sz.pos, n |-> 0, err |-> sz.err, data |-> <<>>,
          work |-> [NoWork EXCEPT !.srcReads = 1]]
    ELSE IF sz.n > boundedStreamingBlockSize
    THEN \* uncompressedBuf[:blockSize]: slice bounds out of range
         [r |-> r0, pos |-> sz.pos, n |-> 0, err |-> "panic", data |-> <<>>,
          work |-> [NoWork EXCEPT !.srcReads = 1]]
    ELSE reader_ReadPayload(r0, dstLen, io_ReadFull(src, sz.pos, sz.n))

\* Mutant: an empty dst is not set apart.
reader_Read_emptyDstReads(r0, src, pos, dstLen) ==
    IF ~r0.pendingNil THEN reader_readFromPending(r0, pos, dstLen)
    ELSE reader_ReadFrame(r0, src, dstLen, reader_readSize(src, pos))

\* reader.Read(dst) with len(dst) = dstLen, the source holding src with pos
\* bytes consumed.  data is what dst[:n] holds afterwards.
reader_Read(r0, src, pos, dstLen) ==
    IF dstLen = 0
    THEN [r |-> r0, pos |-> pos, n |-> 0, err |-> "nil", data |-> <<>>, work |-> NoWork]
    ELSE IF ~r0.pendingNil THEN reader_readFromPending(r0, pos, dstLen)
    ELSE reader_ReadFrame(r0, src, dstLen, reader_readSize(src, pos))

\* ------------------------------------------------------------ CompressReader
\* outputBuffer is the unread part of the bytes.Buffer over the last frame.
NewCompressReader ==
    [compressionBuffer |-> [i \in 0..1 |-> <<>>],
     outputBuffer |-> <<>>,
     lz4Stream |-> [dictSlot |-> 0, dictSize |-> 0, okCalls |-> -1],
     inpBufIndex |-> 0,
     totalCompressedWritten |-> 0]

\* Mutant: the same slot every time.
CompressReader_nextInputBuffer_sameSlot(c0) ==
    [c0 EXCEPT !.inpBufIndex = c0.inpBufIndex % 2]

CompressReader_nextInputBuffer(c0) ==
    [c0 EXCEPT !.inpBufIndex = (c0.inpBufIndex + 1) % 2]

\* Read after the codec call c on the block staged in c2: the header and the
\* payload become the output buffer, and dst takes what fits.
CompressReader_ReadCompressed(c2, pos, dstLen, block, c) ==
    IF c.written <= 0
    THEN [c |-> [c2 EXCEPT !.lz4Stream = c.stream], pos |-> pos, n |-> 0,
          err |-> "error compressing", data |-> <<>>,
          work |-> [srcReads |-> 1, codecCalls |-> 1, slot |-> c2.inpBufIndex,
                    block |-> block, dict |-> c.dict]]
    ELSE LET frame == PutUint32(c.written) \o SubSeq(c.out, 1, c.written)
             n == min(dstLen, Len(frame))
         IN  [c |-> [c2 EXCEPT !.lz4Stream = c.stream,
                               !.outputBuffer = SubSeq(frame, n + 1, Len(frame)),
                               !.totalCompressedWritten = @ + c.written + 4],
              pos |-> pos, n |-> n, err |-> "nil", data |-> SubSeq(frame, 1, n),
              work |-> [srcReads |-> 1, codecCalls |-> 1, slot |-> c2.inpBufIndex,
                        block |-> block, dict |-> c.dict]]

\* Read once the next slot is chosen (c1) and io.ReadFull(source, inpPtr)
\* returned rf: a short last block is a block like any other.
CompressReader_ReadSource(c1, dstLen, rf) ==
    IF rf.err = "EOF"
    THEN [c |-> c1, pos |-> rf.pos, n |-> 0, err |-> "EOF", data |-> <<>>,
          work |-> [srcReads |-> 1, codecCalls |-> 0, slot |-> c1.inpBufIndex,
                    block |-> <<>>, dict |-> <<>>]]
    ELSE IF rf.err \notin {"nil", "ErrUnexpectedEOF"}
    THEN [c |-> c1, pos |-> rf.pos, n |-> 0, err |-> "error reading source",
          data |-> <<>>,
          work |-> [srcReads |-> 1, codecCalls |-> 0, slot |-> c1.inpBufIndex,
                    block |-> <<>>, dict |-> <<>>]]
    ELSE CompressReader_ReadCompressed(
             [c1 EXCEPT !.compressionBuffer[c1.inpBufIndex] = copy(@, rf.data)],
             rf.pos, dstLen, rf.data,
             LZ4_compress_fast_continue(c1.lz4Stream,
                 [c1.compressionBuffer EXCEPT ![c1.inpBufIndex] = copy(@, rf.data)],
                 c1.inpBufIndex, rf.n, boundedStreamingBlockSize))

\* CompressReader.Read(dst) with len(dst) = dstLen, the source holding src with
\* pos bytes consumed.
CompressReader_Read(c0, src, pos, dstLen) ==
    IF min(dstLen, Len(c0.outputBuffer)) > 0
    THEN [c |-> [c0 EXCEPT !.outputBuffer =
                     SubSeq(@, min(dstLen, Len(@)) + 1, Len(@))],
          pos |-> pos, n |-> min(dstLen, Len(c0.outputBuffer)), err |-> "nil",
          data |-> SubSeq(c0.outputBuffer, 1, min(dstLen, Len(c0.outputBuffer))),
          work |-> [srcReads |-> 0, codecCalls |-> 0, slot |-> c0.inpBufIndex,
                    block |-> <<>>, dict |-> <<>>]]
    ELSE CompressReader_ReadSource(CompressReader_nextInputBuffer(c0), dstLen,
                                   io_ReadFull(src, pos, streamingBlockSize))

\* A Read of the source that fails with an error of its own, no byte read.
io_ReadError(pos) == [n |-> 0, err |-> "source error", data |-> <<>>, pos |-> pos]

\* CompressReader.Read(dst) over a source whose next Read fails.
CompressReader_ReadFailing(c0, pos, dstLen) ==
    IF min(dstLen, Len(c0.outputBuffer)) > 0
    THEN CompressReader_Read(c0, <<>>, pos, dstLen)
    ELSE CompressReader_ReadSource(CompressReader_nextInputBuffer(c0), dstLen,
                                   io_ReadError(pos))

\* ------------------------------------------------------------ DecompressReader
\* outputBuffer is a bytes.Reader over the first len bytes of buffer slot, of
\* which off are read.
NewDecompressReader ==
    [lz4Stream |-> [prefixSlot |-> 0, prefixSize |-> 0],
     outputBuffer |-> [slot |-> 0, off |-> 0, len |-> 0],
     decompressionBuffer |-> [i \in 0..1 |-> <<>>],
     inpBufIndex |-> 0]

DecompressReader_nextDecompressionBuffer(d0) ==
    [d0 EXCEPT !.inpBufIndex = (d0.inpBufIndex + 1) % 2]

\* readSize, rf being what io.ReadFull(rdr, temp[:]) returned.
DecompressReader_readSizeOf(rf) ==
    IF rf.err # "nil" THEN [n |-> 0, err |-> rf.err, pos |-> rf.pos]
    ELSE [n |-> Uint32(rf.data), err |-> "nil", pos |-> rf.pos]

DecompressReader_readSize(src, pos) ==
    DecompressReader_readSizeOf(io_ReadFull(src, pos, blockHeaderSize))

\* Read after the codec call d into the slot chosen in d1: the output buffer
\* is a reader over the block where it was decoded, and dst takes what fits.
DecompressReader_ReadDecoded(d1, pos, dstLen, d) ==
    IF d.decompressed < 0
    THEN [d |-> [d1 EXCEPT !.lz4Stream = d.stream, !.decompressionBuffer = d.mem],
          pos |-> pos, n |-> d.decompressed, err |-> "error decompressing",
          data |-> <<>>,
          work |-> [srcReads |-> 2, codecCalls |-> 1, decompressed |-> d.decompressed,
                    block |-> <<>>]]
    ELSE [d |-> [d1 EXCEPT !.lz4Stream = d.stream, !.decompressionBuffer = d.mem,
                           !.outputBuffer = [slot |-> d1.inpBufIndex,
                                             off |-> min(dstLen, d.decompressed),
                                             len |-> d.decompressed]],
          pos |-> pos, n |-> min(dstLen, d.decompressed), err |-> "nil",
          data |-> SubSeq(d.mem[d1.inpBufIndex], 1, min(dstLen, d.decompressed)),
          work |-> [srcReads |-> 2, codecCalls |-> 1, decompressed |-> d.decompressed,
                    block |-> SubSeq(d.mem[d1.inpBufIndex], 1, d.decompressed)]]

\* Read once the slot is switched (d1) and the frame's payload is read as rf.
DecompressReader_ReadPayload(d1, dstLen, rf) ==
    IF rf.err # "nil"
    THEN [d |-> d1, pos |-> rf.pos, n |-> 0, err |-> rf.err, data |-> <<>>,
          work |-> [NoWork EXCEPT !.srcReads = 2]]
    ELSE DecompressReader_ReadDecoded(d1, rf.pos, dstLen,
             LZ4_decompress_safe_continue(d1.lz4Stream, d1.decompressionBuffer, rf.data,
                                          d1.inpBufIndex, streamingBlockSize))

\* Read once the frame's length is read as sz.
DecompressReader_ReadFrame(d0, src, dstLen, sz) ==
    IF sz.err # "nil"
    THEN [d |-> d0, pos |-> sz.pos, n |-> 0, err |-> sz.err, data |-> <<>>,
          work |-> [NoWork EXCEPT !.srcReads = 1]]
    ELSE IF sz.n > boundedStreamingBlockSize
    THEN \* inPtr[:compressedBlockSize]: slice bounds out of range
         [d |-> DecompressReader_nextDecompressionBuffer(d0), pos |-> sz.pos, n |-> 0,
          err |-> "panic", data |-> <<>>, work |-> [NoWork EXCEPT !.srcReads = 1]]
    ELSE DecompressReader_ReadPayload(DecompressReader_nextDecompressionBuffer(d0),
                                      dstLen, io_ReadFull(src, sz.pos, sz.n))

\* DecompressReader.Read(dst) with len(dst) = dstLen, the source holding src
\* with pos bytes consumed.
DecompressReader_Read(d0, src, pos, dstLen) ==
    IF min(dstLen, d0.outputBuffer.len - d0.outputBuffer.off) > 0
    THEN [d |-> [d0 EXCEPT !.outputBuffer.off =
                     @ + min(dstLen, d0.outputBuffer.len - d0.outputBuffer.off)],
          pos |-> pos, n |-> min(dstLen, d0.outputBuffer.len - d0.outputBuffer.off),
          err |-> "nil",
          data |-> SubSeq(d0.decompressionBuffer[d0.outputBuffer.slot],
                          d0.outputBuffer.off + 1,
                          d0.outputBuffer.off
                              + min(dstLen, d0.outputBuffer.len - d0.outputBuffer.off)),
          work |-> NoWork]
    ELSE DecompressReader_ReadFrame(d0, src, dstLen, DecompressReader_readSize(src, pos))

\* ------------------------------------------------------------ header.go
\* make([]byte, n)
make(n) == [i \in 1..n |-> 0]

CompressBoundHdr(n) == CompressBound(n) + 4

\* Compress(out, in) with len(out) = outCap, c being what the codec returned.
CompressOf(c) ==
    [outSize |-> c.n,
     err |-> IF c.n = 0 THEN "Insufficient space for compression" ELSE "nil",
     data |-> c.out]

Compress(outCap, in) == CompressOf(LZ4_compress_default(in, outCap))

\* Mutant: a negative size from the codec is not made an error.
UncompressOf_sizeUnchecked(out, d) ==
    [outSize |-> d.n, err |-> "nil", out |-> copy(out, d.out), codec |-> 1]

\* Uncompress(out, in), d being what the codec returned.
UncompressOf(out, d) ==
    [outSize |-> d.n,
     err |-> IF d.n < 0 THEN "Malformed compression stream" ELSE "nil",
     out |-> copy(out, d.out),
     codec |-> 1]

Uncompress(out, in) == UncompressOf(out, LZ4_decompress_safe(in, Len(out)))

\* CompressHdr(out, in), c being what Compress(out[4:], in) returned.
CompressHdrOf(out, in, c) ==
    [count |-> c.outSize + 4, err |-> c.err,
     out |-> PutUint32(Len(in)) \o copy(SubSeq(out, 5, Len(out)), c.data)]

\* Mutant: the count of the codec returned as it is.
CompressHdr_countWithoutHeader(out, in) ==
    IF Len(out) < 4 THEN [count |-> 0, err |-> "panic", out |-> out]
    ELSE [count |-> Compress(Len(out) - 4, in).outSize,
          err |-> Compress(Len(out) - 4, in).err,
          out |-> PutUint32(Len(in))
                      \o copy(SubSeq(out, 5, Len(out)), Compress(Len(out) - 4, in).data)]

\* Mutant: the header holds the compressed length.
CompressHdr_headerIsCount(out, in) ==
    [count |-> Compress(Len(out) - 4, in).outSize + 4,
     err |-> Compress(Len(out) - 4, in).err,
     out |-> PutUint32(Compress(Len(out) - 4, in).outSize)
                 \o copy(SubSeq(out, 5, Len(out)), Compress(Len(out) - 4, in).data)]

CompressHdr(out, in) ==
    IF Len(out) < 4
    THEN \* out[4:]: slice bounds out of range
         [count |-> 0, err |-> "panic", out |-> out]
    ELSE CompressHdrOf(out, in, Compress(Len(out) - 4, in))

\* CompressAllocHdr(in), h being what CompressHdr(out, in) returned.
CompressAllocHdrOf(h) ==
    IF h.err # "nil" THEN [out |-> h.out, err |-> h.err]
    ELSE [out |-> SubSeq(h.out, 1, h.count), err |-> "nil"]

CompressAllocHdr(in) ==
    CompressAllocHdrOf(CompressHdr(make(CompressBoundHdr(Len(in))), in))

\* UncompressHdr(out, in), u being what Uncompress(out, in[4:]) returned; out
\* is what the caller's out holds afterwards, codec the calls of the block codec.
UncompressHdrOf(u) == [err |-> u.err, out |-> u.out, codec |-> u.codec]

UncompressHdr(out, in) ==
    IF Len(in) < 4
    THEN [err |-> "input too short to contain a length header", out |-> out, codec |-> 0]
    ELSE UncompressHdrOf(Uncompress(out, SubSeq(in, 5, Len(in))))

\* UncompressAllocHdr(out, in), u being what Uncompress(out, in[4:]) returned.
UncompressAllocHdrOf(u) == [out |-> u.out, err |-> u.err, codec |-> u.codec]

\* Mutant: an input too short for a header taken for an empty message.
UncompressAllocHdr_shortIsEmpty(out, in) ==
    IF Len(in) < 4 THEN [out |-> <<>>, err |-> "nil", codec |-> 0]
    ELSE IF Uint32(SubSeq(in, 1, 4)) <= 0 THEN [out |-> <<>>, err |-> "nil", codec |-> 0]
    ELSE UncompressAllocHdrOf(
             Uncompress(IF Uint32(SubSeq(in, 1, 4)) > Len(out)
                        THEN make(Uint32(SubSeq(in, 1, 4))) ELSE out,
                        SubSeq(in, 5, Len(in))))

\* Mutant: a header of 0 handled like any other.
UncompressAllocHdr_zeroDecoded(out, in) ==
    IF Len(in) < 4
    THEN [out |-> out, err |-> "input too short to contain a length header", codec |-> 0]
    ELSE UncompressAllocHdrOf(
             Uncompress(IF Uint32(SubSeq(in, 1, 4)) > Len(out)
                        THEN make(Uint32(SubSeq(in, 1, 4))) ELSE out,
                        SubSeq(in, 5, Len(in))))

UncompressAllocHdr(out, in) ==
    IF Len(in) < 4
    THEN [out |-> out, err |-> "input too short to contain a length header", codec |-> 0]
    ELSE IF Uint32(SubSeq(in, 1, 4)) <= 0 THEN [out |-> <<>>, err |-> "nil", codec |-> 0]
    ELSE UncompressAllocHdrOf(
             Uncompress(IF Uint32(SubSeq(in, 1, 4)) > Len(out)
                        THEN make(Uint32(SubSeq(in, 1, 4))) ELSE out,
                        SubSeq(in, 5, Len(in))))

\* ------------------------------------------------------------ Close
\* The C allocations of an instance: h.freed[x] counts the calls that released
\* allocation x, h.streamNil tells whether the lz4Stream field is nil.
\* What each constructor allocates.
Owned(kind) ==
    CASE kind = "Writer" -> {"lz4Stream", "compressionBuffer0", "compressionBuffer1"}
      [] kind = "reader" -> {"lz4Stream", "left", "right"}
      [] kind = "CompressReader" -> {"lz4Stream", "compressionBuffer0", "compressionBuffer1"}
      [] kind = "DecompressReader" ->
             {"lz4Stream", "decompressionBuffer0", "decompressionBuffer1",
              "compressedBuffer"}
      [] OTHER -> {}

\* C.free(x), and C.LZ4_freeStream / C.LZ4_freeStreamDecode for the stream
free(h, x) == [h EXCEPT !.freed[x] = @ + 1]

\* if lz4Stream != nil { free it; lz4Stream = nil }
freeStream(h) ==
    IF ~h.streamNil THEN [free(h, "lz4Stream") EXCEPT !.streamNil = TRUE] ELSE h

\* Mutant: Close ends the stream with a frame of length 0.
Writer_CloseSink_endMark(w0, snk) ==
    [w |-> [w0 EXCEPT !.underlyingWriter.calls = @ + 1], sink |-> snk \o PutUint32(0)]

\* What Close does to the Writer and its sink: it makes no call on
\* underlyingWriter and leaves the fields of the Writer as they are.
Writer_CloseSink(w0, snk) == [w |-> w0, sink |-> snk]

Writer_Close(h) ==
    [free(free(freeStream(h), "compressionBuffer0"), "compressionBuffer1")
        EXCEPT !.closes = @ + 1, !.err = "nil"]

\* Mutant: the left buffer released twice, the right one never.
reader_Close_leftTwice(h) ==
    [free(free(freeStream(h), "left"), "left") EXCEPT !.closes = @ + 1, !.err = "nil"]

reader_Close(h) ==
    [free(free(freeStream(h), "left"), "right") EXCEPT !.closes = @ + 1, !.err = "nil"]

CompressReader_Close(h) ==
    [free(free(freeStream(h), "compressionBuffer0"), "compressionBuffer1")
        EXCEPT !.closes = @ + 1, !.err = "nil"]

DecompressReader_Close(h) ==
    [free(free(free(freeStream(h), "decompressionBuffer0"), "decompressionBuffer1"),
          "compressedBuffer")
        EXCEPT !.closes = @ + 1, !.err = "nil"]

\* ------------------------------------------------------------ state
VARIABLES
    w,        \* the Writer
    sink,     \* every byte the Writer's underlying io.Writer has received
    r,        \* the reader made by NewReader over the sink
    rpos,     \* how many bytes of the sink the reader has consumed
    wres,     \* the last Write call: its argument and what it returned
    rres,     \* the last Read call: len(dst) and what it returned
    hist,     \* history: what was written, delivered, and every codec call
    cr,       \* a CompressReader over a source
    dr,       \* a DecompressReader over the bytes read from cr
    pipe,     \* the source of cr, the bytes read from cr and from dr, the last calls
    hdr,      \* a one-shot message: the input, CompressAllocHdr's and
              \* UncompressAllocHdr's results
    heap      \* the C allocations of the instance that Close is called on

streamVars == <<w, sink, r, rpos, wres, rres, hist>>
pipeVars == <<cr, dr, pipe>>
vars == <<w, sink, r, rpos, wres, rres, hist, cr, dr, pipe, hdr, heap>>

NoWrite == [src |-> <<>>, n |-> 0, err |-> "none", frames |-> 0, before |-> 0,
            sinkWrites |-> 0, sinkFailures |-> 0, counterBefore |-> 0]
NoRead == [dst |-> 0, n |-> 0, err |-> "none", data |-> <<>>, work |-> NoWork, pos0 |-> 0]
NoCRead == [dst |-> 0, n |-> 0, err |-> "none", data |-> <<>>,
            work |-> [srcReads |-> 0, codecCalls |-> 0, slot |-> 0, block |-> <<>>,
                      dict |-> <<>>]]

StreamInit ==
    /\ w = NewWriter
    /\ sink = <<>>
    /\ r = NewReader
    /\ rpos = 0
    /\ wres = NoWrite
    /\ rres = NoRead
    /\ hist = [written |-> <<>>, delivered |-> <<>>, decoded |-> <<>>, calls |-> <<>>,
               nWrites |-> 0, readFailed |-> FALSE, lastOp |-> "none"]

\* A CompressReader over a bytes.Buffer holding source, and a DecompressReader.
PipeInit(source) ==
    /\ cr = NewCompressReader
    /\ dr = NewDecompressReader
    /\ pipe = [source |-> source, spos |-> 0, mid |-> <<>>, dpos |-> 0,
               delivered |-> <<>>, crEOF |-> FALSE, zeroDst |-> FALSE,
               failed |-> FALSE, cres |-> NoCRead, dres |-> NoRead, lastOp |-> "none"]

HdrInit ==
    hdr = [stage |-> "idle", in |-> <<>>, packed |-> <<>>, cerr |-> "none",
           dstLen |-> 0, out |-> <<>>, uerr |-> "none",
           dst |-> <<>>, count |-> 0, codec |-> 0, n |-> 0, bound |-> 0, boundHdr |-> 0]

\* Every allocation live, no Close called yet.
Allocations ==
    {"lz4Stream", "compressionBuffer0", "compressionBuffer1", "left", "right",
     "decompressionBuffer0", "decompressionBuffer1", "compressedBuffer"}

HeapOf(kind) ==
    [kind |-> kind, streamNil |-> FALSE, freed |-> [x \in Allocations |-> 0],
     closes |-> 0, err |-> "none"]

HeapInit == heap = HeapOf("none")

Init == StreamInit /\ PipeInit(<<>>) /\ HdrInit /\ HeapInit

\* w.Write(src) returned res
WriteReturns(src, res) ==
    /\ w' = res.w
    /\ sink' = res.sink
    /\ wres' = [src |-> src, n |-> res.n, err |-> res.err, frames |-> Len(res.calls),
                before |-> Len(sink),
                sinkWrites |-> res.w.underlyingWriter.calls - w.underlyingWriter.calls,
                sinkFailures |-> res.w.underlyingWriter.failures
                                 - w.underlyingWriter.failures,
                counterBefore |-> w.totalCompressedWritten]
    /\ hist' = [hist EXCEPT !.written = @ \o SubSeq(src, 1, res.n),
                            !.calls = @ \o res.calls,
                            !.nWrites = @ + 1,
                            !.lastOp = "Write"]
    /\ UNCHANGED <<r, rpos, rres, cr, dr, pipe, hdr, heap>>

\* w.Write(src)
Write(src) ==
    /\ hist.nWrites < MaxWrites
    /\ Len(hist.written) + Len(src) <= MaxTotal
    /\ WriteReturns(src, Writer_Write(w, sink, src))

\* r.Read(dst) returned res
ReadReturns(dstLen, res) ==
    /\ r' = res.r
    /\ rpos' = res.pos
    /\ rres' = [dst |-> dstLen, n |-> res.n, err |-> res.err, data |-> res.data,
                work |-> res.work, pos0 |-> rpos]
    /\ hist' = [hist EXCEPT !.delivered = @ \o res.data,
                            !.decoded = @ \o res.work.block,
                            !.readFailed = @ \/ res.err \notin {"nil", "EOF"},
                            !.lastOp = "Read"]
    /\ UNCHANGED <<w, sink, wres, cr, dr, pipe, hdr, heap>>

\* r.Read(dst) with len(dst) = dstLen
Read(dstLen) ==
    /\ dstLen \in 0..MaxDst
    /\ ReadReturns(dstLen, reader_Read(r, sink, rpos, dstLen))

Next ==
    \/ \E src \in SeqsUpTo(MaxWriteLen) : Write(src)
    \/ \E dstLen \in 0..MaxDst : Read(dstLen)

Spec == Init /\ [][Next]_vars

\* ---- a CompressReader read to the end, its bytes then fed to a DecompressReader
\* cr.Read(dst) returned res; the bytes obtained are kept in pipe.mid
CReadReturns(dstLen, res) ==
    /\ cr' = res.c
    /\ pipe' = [pipe EXCEPT !.spos = res.pos,
                            !.mid = @ \o res.data,
                            !.crEOF = (res.err = "EOF"),
                            !.zeroDst = @ \/ dstLen = 0,
                            !.failed = @ \/ res.err \notin {"nil", "EOF"},
                            !.cres = [dst |-> dstLen, n |-> res.n, err |-> res.err,
                                      data |-> res.data, work |-> res.work],
                            !.lastOp = "CRead"]
    /\ UNCHANGED <<dr, hdr, heap, w, sink, r, rpos, wres, rres, hist>>

\* cr.Read(dst) with len(dst) = dstLen, until cr has returned io.EOF
CRead(dstLen) ==
    /\ ~pipe.crEOF
    /\ CReadReturns(dstLen, CompressReader_Read(cr, pipe.source, pipe.spos, dstLen))

\* Mutant: the DecompressReader decodes into buffers that the reader uses too
\* (staging buffers shared between instances).
DReadReturns_sharedBuffers(dstLen, res) ==
    /\ dr' = res.d
    /\ r' = [r EXCEPT !.left = res.d.decompressionBuffer[0],
                      !.right = res.d.decompressionBuffer[1]]
    /\ pipe' = [pipe EXCEPT !.dpos = res.pos,
                            !.delivered = @ \o res.data,
                            !.zeroDst = @ \/ dstLen = 0,
                            !.failed = @ \/ res.err \notin {"nil", "EOF"},
                            !.dres = [dst |-> dstLen, n |-> res.n, err |-> res.err,
                                      data |-> res.data, work |-> res.work,
                                      pos0 |-> pipe.dpos],
                            !.lastOp = "DRead"]
    /\ UNCHANGED <<cr, hdr, heap, w, sink, rpos, wres, rres, hist>>

\* dr.Read(dst) returned res
DReadReturns(dstLen, res) ==
    /\ dr' = res.d
    /\ pipe' = [pipe EXCEPT !.dpos = res.pos,
                            !.delivered = @ \o res.data,
                            !.zeroDst = @ \/ dstLen = 0,
                            !.failed = @ \/ res.err \notin {"nil", "EOF"},
                            !.dres = [dst |-> dstLen, n |-> res.n, err |-> res.err,
                                      data |-> res.data, work |-> res.work,
                                      pos0 |-> pipe.dpos],
                            !.lastOp = "DRead"]
    /\ UNCHANGED <<cr, hdr, heap, w, sink, r, rpos, wres, rres, hist>>

\* dr.Read(dst) with len(dst) = dstLen, over the bytes cr gave before its io.EOF
DRead(dstLen) ==
    /\ pipe.crEOF
    /\ DReadReturns(dstLen, DecompressReader_Read(dr, pipe.mid, pipe.dpos, dstLen))

\* cr.Read(dst), also after cr has returned io.EOF
CReadOn(dstLen) ==
    CReadReturns(dstLen, CompressReader_Read(cr, pipe.source, pipe.spos, dstLen))

\* cr.Read(dst) when the source fails
CReadSourceFails(dstLen) ==
    CReadReturns(dstLen, CompressReader_ReadFailing(cr, pipe.spos, dstLen))

InitPipe == StreamInit /\ HdrInit /\ HeapInit /\ \E source \in SeqsUpTo(MaxTotal) : PipeInit(source)

NextPipe ==
    \/ \E dstLen \in 0..MaxDst : CRead(dstLen)
    \/ \E dstLen \in 0..MaxDst : DRead(dstLen)

SpecPipe == InitPipe /\ [][NextPipe]_vars

\* A CompressReader over a source that may fail, read on after errors and
\* after io.EOF.
NextSource ==
    \/ \E dstLen \in 0..MaxDst : CReadOn(dstLen)
    \/ \E dstLen \in 0..MaxDst : CReadSourceFails(dstLen)

SpecSource == InitPipe /\ [][NextSource]_vars

\* ---- the two decoders over a stream that was cut or altered on its way
\* The stream a Writer makes of b in one Write.
ValidStream(b) == Writer_Write(NewWriter, <<>>, b).sink

\* Values put in place of the first frame's length: none, one, the largest a
\* frame may announce, one more, and the largest a positive 32-bit int holds.
BadHeaders ==
    {PutUint32(n) : n \in {0, 1, boundedStreamingBlockSize, boundedStreamingBlockSize + 1,
                           2147483647}}

\* Values put in place of one byte after the first length.
BadBytes == {0, 1, 127}

\* s itself, s cut anywhere, s with another first length, s with one byte altered.
Damaged(s) ==
    {SubSeq(s, 1, k) : k \in 0..Len(s)}
        \cup {h \o SubSeq(s, 5, Len(s)) : h \in IF Len(s) >= 4 THEN BadHeaders ELSE {}}
        \cup {[s EXCEPT ![k] = v] : k \in 5..Len(s), v \in BadBytes}

BadSources == UNION {Damaged(ValidStream(b)) : b \in SeqsUpTo(MaxBadLen)}

\* A reader over source, and a DecompressReader over the same bytes.
\* A Writer over a sink that fails after some Write calls, with a codec that
\* reports a failure after some calls.
InitFault ==
    /\ \E okWrites \in -1..MaxOkWrites, short \in 0..MaxShort, okCalls \in -1..MaxOkCalls :
          w = [NewWriterOver(io_Writer(okWrites, short)) EXCEPT !.lz4Stream.okCalls = okCalls]
    /\ sink = <<>>
    /\ r = NewReader
    /\ rpos = 0
    /\ wres = NoWrite
    /\ rres = NoRead
    /\ hist = [written |-> <<>>, delivered |-> <<>>, decoded |-> <<>>, calls |-> <<>>,
               nWrites |-> 0, readFailed |-> FALSE, lastOp |-> "none"]
    /\ PipeInit(<<>>)
    /\ HdrInit
    /\ HeapInit

NextFault ==
    \E src \in SeqsUpTo(MaxWriteLen) : hist.nWrites < MaxFaultWrites /\ Write(src)

SpecFault == InitFault /\ [][NextFault]_vars

InitBad ==
    /\ w = NewWriter
    /\ r = NewReader
    /\ rpos = 0
    /\ wres = NoWrite
    /\ rres = NoRead
    /\ hist = [written |-> <<>>, delivered |-> <<>>, decoded |-> <<>>, calls |-> <<>>,
               nWrites |-> 0, readFailed |-> FALSE, lastOp |-> "none"]
    /\ cr = NewCompressReader
    /\ dr = NewDecompressReader
    /\ HdrInit
    /\ HeapInit
    /\ \E source \in BadSources :
          /\ sink = source
          /\ pipe = [source |-> <<>>, spos |-> 0, mid |-> source, dpos |-> 0,
                     delivered |-> <<>>, crEOF |-> TRUE, zeroDst |-> FALSE,
                     failed |-> FALSE, cres |-> NoCRead, dres |-> NoRead,
                     lastOp |-> "none"]

NextBad ==
    \/ \E dstLen \in 0..MaxDst : Read(dstLen)
    \/ \E dstLen \in 0..MaxDst : DRead(dstLen)

SpecBad == InitBad /\ [][NextBad]_vars

\* r.Read(dst) returned rr and dr.Read(dst), with a dst as long, returned dd
BothReadReturn(dstLen, rr, dd) ==
    /\ r' = rr.r
    /\ rpos' = rr.pos
    /\ rres' = [dst |-> dstLen, n |-> rr.n, err |-> rr.err, data |-> rr.data,
                work |-> rr.work, pos0 |-> rpos]
    /\ hist' = [hist EXCEPT !.delivered = @ \o rr.data,
                            !.decoded = @ \o rr.work.block,
                            !.readFailed = @ \/ rr.err \notin {"nil", "EOF"},
                            !.lastOp = "Read"]
    /\ dr' = dd.d
    /\ pipe' = [pipe EXCEPT !.dpos = dd.pos,
                            !.delivered = @ \o dd.data,
                            !.zeroDst = @ \/ dstLen = 0,
                            !.failed = @ \/ dd.err \notin {"nil", "EOF"},
                            !.dres = [dst |-> dstLen, n |-> dd.n, err |-> dd.err,
                                      data |-> dd.data, work |-> dd.work,
                                      pos0 |-> pipe.dpos],
                            !.lastOp = "DRead"]
    /\ UNCHANGED <<w, sink, wres, cr, hdr, heap>>

\* The same Read call made on a reader and on a DecompressReader that read
\* copies of the same stream.
BothRead(dstLen) ==
    BothReadReturn(dstLen, reader_Read(r, sink, rpos, dstLen),
                   DecompressReader_Read(dr, pipe.mid, pipe.dpos, dstLen))

NextBoth == \E dstLen \in 0..MaxDst : BothRead(dstLen)

SpecBoth == InitBad /\ [][NextBoth]_vars

\* The sink after parts are written one by one, from the k-th on.
RECURSIVE WriteAll(_, _, _, _)
WriteAllNext(parts, k, res) == WriteAll(res.w, res.sink, parts, k + 1)

WriteAll(w0, snk, parts, k) ==
    IF k > Len(parts) THEN snk
    ELSE WriteAllNext(parts, k, Writer_Write(w0, snk, parts[k]))

\* Streams of ResumeFrames frames, as they are, cut, or with one byte altered.
ResumeSources ==
    UNION {Damaged(WriteAll(NewWriter, <<>>, parts, 1)) :
               parts \in [1..ResumeFrames -> SeqsUpTo(MaxPartLen) \ {<<>>}]}

\* A reader and a DecompressReader over copies of such a stream, read on after
\* errors.
InitResume ==
    /\ w = NewWriter
    /\ r = NewReader
    /\ rpos = 0
    /\ wres = NoWrite
    /\ rres = NoRead
    /\ hist = [written |-> <<>>, delivered |-> <<>>, decoded |-> <<>>, calls |-> <<>>,
               nWrites |-> 0, readFailed |-> FALSE, lastOp |-> "none"]
    /\ cr = NewCompressReader
    /\ dr = NewDecompressReader
    /\ HdrInit
    /\ HeapInit
    /\ \E source \in ResumeSources :
          /\ sink = source
          /\ pipe = [source |-> <<>>, spos |-> 0, mid |-> source, dpos |-> 0,
                     delivered |-> <<>>, crEOF |-> TRUE, zeroDst |-> FALSE,
                     failed |-> FALSE, cres |-> NoCRead, dres |-> NoRead,
                     lastOp |-> "none"]

SpecResume == InitResume /\ [][NextBoth]_vars

\* Streams a Writer makes in DrainWrites Write calls.
DrainSources ==
    {WriteAll(NewWriter, <<>>, parts, 1) :
         parts \in [1..DrainWrites -> SeqsUpTo(MaxDrainLen)]}

\* A reader and a DecompressReader over copies of such a stream.
InitDrain ==
    /\ w = NewWriter
    /\ r = NewReader
    /\ rpos = 0
    /\ wres = NoWrite
    /\ rres = NoRead
    /\ hist = [written |-> <<>>, delivered |-> <<>>, decoded |-> <<>>, calls |-> <<>>,
               nWrites |-> 0, readFailed |-> FALSE, lastOp |-> "none"]
    /\ cr = NewCompressReader
    /\ dr = NewDecompressReader
    /\ HdrInit
    /\ HeapInit
    /\ \E source \in DrainSources :
          /\ sink = source
          /\ pipe = [source |-> <<>>, spos |-> 0, mid |-> source, dpos |-> 0,
                     delivered |-> <<>>, crEOF |-> TRUE, zeroDst |-> FALSE,
                     failed |-> FALSE, cres |-> NoCRead, dres |-> NoRead,
                     lastOp |-> "none"]

\* One turn of a loop that reads into a dst that is not empty.
NextDrain == \E dstLen \in 1..MaxDst : BothRead(dstLen)

\* The loop goes on calling Read.  Read may be called in every state, and a call
\* with a dst of another length than the last differs from it, so <<NextDrain>>_vars
\* is always enabled and weak fairness of the loop, WF_vars(NextDrain), is that
\* it takes turns for ever.
SpecDrain == InitDrain /\ [][NextDrain]_vars /\ []<><<NextDrain>>_vars

\* ---- one instance used, then closed
\* Releasing an allocation again is undefined in C: the call may return as
\* if nothing had happened, or the allocator may abort the process.
CloseOutcomes(h) ==
    IF \E x \in Allocations : h.freed[x] > 1 THEN {"nil", "abort"} ELSE {"nil"}

\* x.Close() left the allocations as h
CloseReturns(h) ==
    /\ \E outcome \in CloseOutcomes(h) : heap' = [h EXCEPT !.err = outcome]
    /\ UNCHANGED <<streamVars, pipeVars, hdr>>

\* Close is called on an instance that has not aborted; the instance is not
\* used for anything else after its first Close ("cannot be used after the
\* release").
\* w.Close() left the allocations as h, and the Writer and the sink as ws
CloseWriterReturns(h, ws) ==
    /\ \E outcome \in CloseOutcomes(h) : heap' = [h EXCEPT !.err = outcome]
    /\ w' = ws.w
    /\ sink' = ws.sink
    /\ UNCHANGED <<r, rpos, wres, rres, hist, pipeVars, hdr>>

CloseWriter ==
    /\ heap.kind = "Writer" /\ heap.closes < MaxCloses /\ heap.err # "abort"
    /\ CloseWriterReturns(Writer_Close(heap), Writer_CloseSink(w, sink))

CloseReader ==
    /\ heap.kind = "reader" /\ heap.closes < MaxCloses /\ heap.err # "abort"
    /\ CloseReturns(reader_Close(heap))

CloseCompressReader ==
    /\ heap.kind = "CompressReader" /\ heap.closes < MaxCloses /\ heap.err # "abort"
    /\ CloseReturns(CompressReader_Close(heap))

CloseDecompressReader ==
    /\ heap.kind = "DecompressReader" /\ heap.closes < MaxCloses /\ heap.err # "abort"
    /\ CloseReturns(DecompressReader_Close(heap))

UseWriter(src) ==
    /\ heap.kind = "Writer" /\ heap.closes = 0
    /\ Write(src)

UseReader(dstLen) ==
    /\ heap.kind = "reader" /\ heap.closes = 0
    /\ Read(dstLen)

UseCompressReader(dstLen) ==
    /\ heap.kind = "CompressReader" /\ heap.closes = 0
    /\ CRead(dstLen)

UseDecompressReader(dstLen) ==
    /\ heap.kind = "DecompressReader" /\ heap.closes = 0
    /\ DRead(dstLen)

\* One instance of one of the four kinds: a Writer, a reader or a
\* DecompressReader over a stream that may be cut or altered, or a
\* CompressReader over a source.
InitClose ==
    /\ w = NewWriter
    /\ r = NewReader
    /\ rpos = 0
    /\ wres = NoWrite
    /\ rres = NoRead
    /\ hist = [written |-> <<>>, delivered |-> <<>>, decoded |-> <<>>, calls |-> <<>>,
               nWrites |-> 0, readFailed |-> FALSE, lastOp |-> "none"]
    /\ cr = NewCompressReader
    /\ dr = NewDecompressReader
    /\ HdrInit
    /\ \E kind \in {"Writer", "reader", "CompressReader", "DecompressReader"} :
          /\ heap = HeapOf(kind)
          /\ \E source \in IF kind = "Writer" THEN {<<>>}
                            ELSE IF kind = "CompressReader" THEN SeqsUpTo(MaxBadLen)
                            ELSE BadSources :
                /\ sink = IF kind = "reader" THEN source ELSE <<>>
                /\ pipe = [source |-> IF kind = "CompressReader" THEN source ELSE <<>>,
                           spos |-> 0,
                           mid |-> IF kind = "DecompressReader" THEN source ELSE <<>>,
                           dpos |-> 0, delivered |-> <<>>,
                           crEOF |-> (kind = "DecompressReader"),
                           zeroDst |-> FALSE, failed |-> FALSE, cres |-> NoCRead,
                           dres |-> NoRead, lastOp |-> "none"]

NextClose ==
    \/ \E src \in SeqsUpTo(MaxWriteLen) : UseWriter(src)
    \/ \E dstLen \in 0..MaxDst : UseReader(dstLen)
    \/ \E dstLen \in 0..MaxDst : UseCompressReader(dstLen)
    \/ \E dstLen \in 0..MaxDst : UseDecompressReader(dstLen)
    \/ CloseWriter
    \/ CloseReader
    \/ CloseCompressReader
    \/ CloseDecompressReader

SpecClose == InitClose /\ [][NextClose]_vars

\* ---- a one-shot message with its length header
\* packed, err := CompressAllocHdr(in)
HdrCompress(in) ==
    /\ hdr.stage = "idle"
    /\ hdr' = [hdr EXCEPT !.stage = "packed", !.in = in,
                          !.packed = CompressAllocHdr(in).out,
                          !.cerr = CompressAllocHdr(in).err]
    /\ UNCHANGED <<streamVars, pipeVars, heap>>

\* out, err := UncompressAllocHdr(make([]byte, dstLen), packed); dstLen = 0 is nil
HdrUncompressAlloc(dstLen) ==
    /\ hdr.stage = "packed"
    /\ hdr' = [hdr EXCEPT !.stage = "unpacked", !.dstLen = dstLen,
                          !.out = UncompressAllocHdr(make(dstLen), hdr.packed).out,
                          !.uerr = UncompressAllocHdr(make(dstLen), hdr.packed).err]
    /\ UNCHANGED <<streamVars, pipeVars, heap>>

NextHdr ==
    \/ \E in \in SeqsUpTo(MaxWriteLen) : HdrCompress(in)
    \/ \E dstLen \in 0..MaxDst : HdrUncompressAlloc(dstLen)

SpecHdr == Init /\ [][NextHdr]_vars

\* ---- the length-header routines on buffers and inputs of the caller's making
\* count, err := CompressHdr(out, in) returned res, out being make([]byte, outLen)
HdrCompressIntoReturns(in, outLen, res) ==
    /\ hdr' = [hdr EXCEPT !.stage = "written", !.in = in, !.dst = make(outLen),
                          !.out = res.out, !.count = res.count, !.cerr = res.err]
    /\ UNCHANGED <<streamVars, pipeVars, heap>>

HdrCompressInto(in, outLen) ==
    /\ hdr.stage = "idle"
    /\ outLen \in 0..CompressBoundHdr(Len(in))
    /\ HdrCompressIntoReturns(in, outLen, CompressHdr(make(outLen), in))

\* What may reach a decoder: anything shorter than a header, a header of 0 and
\* anything after it, messages CompressAllocHdr made, as they are, with one byte
\* more, and with one byte less.
RawInputs ==
    UNION {[1..k -> {0, 1, 97}] : k \in 0..3}
        \cup {<<0, 0, 0, 0>> \o t : t \in UNION {[1..k -> {0, 97}] : k \in 0..2}}
        \cup {CompressAllocHdr(b).out : b \in SeqsUpTo(MaxRawLen)}
        \cup {Append(CompressAllocHdr(b).out, 0) : b \in SeqsUpTo(MaxRawLen)}
        \cup {SubSeq(CompressAllocHdr(b).out, 1, Len(CompressAllocHdr(b).out) - 1) :
                  b \in SeqsUpTo(MaxRawLen)}

\* in arrives from elsewhere
HdrReceive(in) ==
    /\ hdr.stage = "idle"
    /\ hdr' = [hdr EXCEPT !.stage = "received", !.packed = in]
    /\ UNCHANGED <<streamVars, pipeVars, heap>>

\* err := UncompressHdr(dst, packed) returned res
HdrUncompressReturns(dst, res) ==
    /\ hdr' = [hdr EXCEPT !.stage = "uncompressed", !.dst = dst, !.out = res.out,
                          !.uerr = res.err, !.codec = res.codec]
    /\ UNCHANGED <<streamVars, pipeVars, heap>>

HdrUncompress(dst) ==
    /\ hdr.stage = "received"
    /\ HdrUncompressReturns(dst, UncompressHdr(dst, hdr.packed))

\* out, err := UncompressAllocHdr(dst, packed) returned res
HdrUncompressAllocIntoReturns(dst, res) ==
    /\ hdr' = [hdr EXCEPT !.stage = "allocated", !.dst = dst, !.out = res.out,
                          !.uerr = res.err, !.codec = res.codec]
    /\ UNCHANGED <<streamVars, pipeVars, heap>>

HdrUncompressAllocInto(dst) ==
    /\ hdr.stage = "received"
    /\ HdrUncompressAllocIntoReturns(dst, UncompressAllocHdr(dst, hdr.packed))

\* CompressBound(in) and CompressBoundHdr(in) with len(in) = n
HdrBound(n) ==
    /\ hdr.stage = "idle"
    /\ hdr' = [hdr EXCEPT !.stage = "bounded", !.n = n, !.bound = CompressBound(n),
                          !.boundHdr = CompressBoundHdr(n)]
    /\ UNCHANGED <<streamVars, pipeVars, heap>>

\* outSize, err := Compress(output, in) returned res, output being of
\* CompressBound(in) bytes; output[:outSize] is kept
HdrPackReturns(in, res) ==
    /\ hdr' = [hdr EXCEPT !.stage = "packed", !.in = in, !.cerr = res.err,
                          !.count = res.outSize, !.packed = res.data]
    /\ UNCHANGED <<streamVars, pipeVars, heap>>

HdrPack(in) ==
    /\ hdr.stage = "idle"
    /\ HdrPackReturns(in, Compress(CompressBound(Len(in)), in))

\* _, err := Uncompress(make([]byte, dstLen), packed) returned res
HdrUnpackReturns(dstLen, res) ==
    /\ hdr' = [hdr EXCEPT !.stage = "unpacked", !.dstLen = dstLen, !.out = res.out,
                          !.uerr = res.err, !.n = res.outSize, !.codec = res.codec]
    /\ UNCHANGED <<streamVars, pipeVars, heap>>

HdrUnpack(dstLen) ==
    /\ hdr.stage = "packed"
    /\ HdrUnpackReturns(dstLen, Uncompress(make(dstLen), hdr.packed))

NextHdrRaw ==
    \/ \E in \in SeqsUpTo(MaxWriteLen), outLen \in 0..CompressBoundHdr(MaxWriteLen) :
          HdrCompressInto(in, outLen)
    \/ \E in \in SeqsUpTo(MaxWriteLen) : HdrPack(in)
    \/ \E dstLen \in 0..MaxWriteLen : HdrUnpack(dstLen)
    \/ \E in \in RawInputs : HdrReceive(in)
    \/ \E dst \in SeqsUpTo(MaxDst) : HdrUncompress(dst)
    \/ \E dst \in SeqsUpTo(MaxDst) : HdrUncompressAllocInto(dst)
    \/ \E n \in 0..MaxBoundLen : HdrBound(n)

SpecHdrRaw == Init /\ [][NextHdrRaw]_vars

\* ------------------------------------------------------------ reading a stream
\* The frames of a byte sequence: 4 bytes of little-endian length, then that
\* many bytes, again and again; ok when nothing else is there.
RECURSIVE ParseFrames(_, _)
ParseFrames(bytes, frames) ==
    IF Len(bytes) = 0 THEN [ok |-> TRUE, frames |-> frames]
    ELSE IF Len(bytes) < 4 THEN [ok |-> FALSE, frames |-> frames]
    ELSE IF Len(bytes) < 4 + Uint32(SubSeq(bytes, 1, 4)) THEN [ok |-> FALSE, frames |-> frames]
    ELSE ParseFrames(SubSeq(bytes, 5 + Uint32(SubSeq(bytes, 1, 4)), Len(bytes)),
                     Append(frames, SubSeq(bytes, 5, 4 + Uint32(SubSeq(bytes, 1, 4)))))

\* Reading a reader to the end with destinations of dstLen bytes, as io.Copy
\* does: the bytes read, and the error that ended it.  fuel bounds the calls.
RECURSIVE Drain(_, _, _, _, _, _)
DrainNext(src, dstLen, data, fuel, res) ==
    IF res.err # "nil" THEN [data |-> data \o res.data, err |-> res.err]
    ELSE Drain(res.r, src, res.pos, dstLen, data \o res.data, fuel - 1)

Drain(r0, src, pos, dstLen, data, fuel) ==
    IF fuel = 0 THEN [data |-> data, err |-> "stalled"]
    ELSE DrainNext(src, dstLen, data, fuel, reader_Read(r0, src, pos, dstLen))

\* ceil(n / streamingBlockSize)
BlocksOf(n) == (n + streamingBlockSize - 1) \div streamingBlockSize

\* The codec calls of the last Write call.
LastCalls == SubSeq(hist.calls, Len(hist.calls) - wres.frames + 1, Len(hist.calls))

\* ------------------------------------------------------------ claims
\* C1: after one Write(b), reading the sink through the reader until it returns
\* io.EOF has delivered exactly b, and no Read returned another error.
C1_RoundTripOneWrite ==
    (hist.nWrites = 1 /\ hist.lastOp = "Read" /\ rres.err = "EOF")
        => /\ hist.delivered = wres.src
           /\ ~hist.readFailed
           /\ rres.n = 0

C1_Witness ==
    /\ hist.nWrites = 1 /\ hist.lastOp = "Read" /\ rres.err = "EOF"
    /\ Len(wres.src) > streamingBlockSize
    /\ hist.delivered = wres.src

\* C2: however the payload was split into Write calls, a fresh reader drained
\* over the whole sink, with destinations of any one size, delivers the
\* unsplit payload and then io.EOF.
C2_SplitIndependence ==
    \A dstLen \in 1..MaxDst :
        Drain(NewReader, sink, 0, dstLen, <<>>, Len(sink) + 2)
            = [data |-> hist.written, err |-> "EOF"]

\* Three Write calls, one of them empty, that cut two full blocks into more
\* frames than the blocks of the payload.
C2_Witness ==
    /\ hist.nWrites = 3
    /\ Len(hist.written) = 2 * streamingBlockSize
    /\ Len(hist.calls) > BlocksOf(Len(hist.written))
    /\ wres.src = <<>>

\* C5: a successful Write(src) returns len(src) and makes ceil(len(src)/block
\* size) frames, the k-th from the k-th block of src: full blocks, then a
\* shorter last one; the sink grows by exactly these frames.
C5_WriteCutsBlocks ==
    wres.err = "nil" =>
        /\ wres.n = Len(wres.src)
        /\ wres.frames = BlocksOf(Len(wres.src))
        /\ \A k \in 1..wres.frames :
              LastCalls[k].src =
                  SubSeq(wres.src, (k - 1) * streamingBlockSize + 1,
                         min(k * streamingBlockSize, Len(wres.src)))
        /\ LET grown == ParseFrames(SubSeq(sink, wres.before + 1, Len(sink)), <<>>)
           IN  grown.ok /\ Len(grown.frames) = wres.frames

C5_Witness ==
    /\ wres.err = "nil"
    /\ wres.frames = 2
    /\ Len(wres.src) = streamingBlockSize + 1
    /\ Len(sink) > wres.before

\* C6: the sink is a concatenation of frames and nothing else, one frame for
\* each block compressed, each payload of 1 to boundedStreamingBlockSize bytes.
C6_SinkIsFrames ==
    LET parsed == ParseFrames(sink, <<>>)
    IN  /\ parsed.ok
        /\ Len(parsed.frames) = Len(hist.calls)
        /\ \A k \in 1..Len(parsed.frames) :
              /\ Len(parsed.frames[k]) >= 1
              /\ Len(parsed.frames[k]) <= boundedStreamingBlockSize

C6_Witness ==
    /\ Len(hist.calls) >= 3
    /\ hist.nWrites >= 2
    /\ ParseFrames(sink, <<>>).ok
    /\ Len(ParseFrames(sink, <<>>).frames) = Len(hist.calls)

\* C7: each block is staged in the other slot than the block before it, and
\* when the codec is called for it, the slot of the block before still holds
\* that block: the dictionary the codec reads is the previous block.
C7_PingPong ==
    \A k \in 2..Len(hist.calls) :
        /\ hist.calls[k].slot # hist.calls[k - 1].slot
        /\ hist.calls[k].dict = hist.calls[k - 1].src

\* Consecutive blocks of one Write call, and of two Write calls.
C7_Witness ==
    /\ wres.frames >= 2
    /\ Len(hist.calls) > wres.frames
    /\ \A k \in 2..Len(hist.calls) : hist.calls[k].dict = hist.calls[k - 1].src

\* C8: a Read with a non-empty destination on a reader holding a pending tail
\* reads nothing from the source, calls no codec, returns min(len(dst), tail)
\* bytes from the front of the tail, and leaves the rest as the tail, or nil
\* when nothing is left.
C8_PendingFirst ==
    [][(hist'.lastOp = "Read" /\ rres'.dst > 0 /\ ~r.pendingNil /\ Len(r.pending) > 0)
        => /\ rpos' = rpos
           /\ rres'.work.srcReads = 0
           /\ rres'.work.codecCalls = 0
           /\ r'.lz4Stream = r.lz4Stream /\ r'.isLeft = r.isLeft
           /\ r'.left = r.left /\ r'.right = r.right
           /\ rres'.err = "nil"
           /\ rres'.n = min(rres'.dst, Len(r.pending))
           /\ rres'.data = SubSeq(r.pending, 1, rres'.n)
           /\ IF rres'.n = Len(r.pending)
              THEN r'.pendingNil
              ELSE ~r'.pendingNil /\ r'.pending = SubSeq(r.pending, rres'.n + 1, Len(r.pending))
      ]_vars

\* A Read served from the tail that left a shorter tail.
C8_Witness ==
    /\ hist.lastOp = "Read"
    /\ rres.work.srcReads = 0 /\ rres.n > 0
    /\ ~r.pendingNil

\* C9: a Read that decoded a block returned its first min(size, len(dst))
\* bytes; and at any time the bytes delivered so far followed by the pending
\* tail are the blocks decoded so far, in order.
C9_NothingLost ==
    /\ hist.delivered \o r.pending = hist.decoded
    /\ (rres.work.codecCalls = 1 /\ rres.err = "nil") =>
          /\ rres.n = min(rres.work.decompressed, rres.dst)
          /\ rres.data = SubSeq(rres.work.block, 1, rres.n)

\* A block larger than the destination, delivered by three Read calls, and a
\* first byte of the next block after it.
C9_Witness ==
    /\ Len(hist.decoded) > streamingBlockSize
    /\ Len(hist.delivered) = streamingBlockSize + 1
    /\ rres.n = 1 /\ rres.work.codecCalls = 1
    /\ hist.delivered \o r.pending = hist.decoded

\* C10: with no pending tail and the source exhausted at a frame boundary, a
\* Read with a non-empty destination returns 0 bytes and io.EOF.
C10_EOFAtBoundary ==
    (r.pendingNil /\ rpos = Len(sink)) =>
        \A dstLen \in 1..MaxDst :
            /\ reader_Read(r, sink, rpos, dstLen).n = 0
            /\ reader_Read(r, sink, rpos, dstLen).err = "EOF"

\* The reader returned io.EOF after the last of several frames.
C10_Witness ==
    /\ hist.lastOp = "Read" /\ rres.err = "EOF" /\ rres.n = 0
    /\ r.pendingNil /\ rpos = Len(sink)
    /\ Len(hist.calls) >= 2


\* C3: UncompressAllocHdr(nil, CompressAllocHdr(b)) is b, with no error from
\* either call.
C3_HdrRoundTrip ==
    (hdr.stage = "unpacked" /\ hdr.dstLen = 0)
        => /\ hdr.cerr = "nil"
           /\ hdr.uerr = "nil"
           /\ hdr.out = hdr.in

\* A message that the codec shortened, and that came back.
C3_Witness ==
    /\ hdr.stage = "unpacked" /\ hdr.dstLen = 0
    /\ Len(hdr.in) = MaxWriteLen
    /\ Len(hdr.packed) < Len(hdr.in) + 4
    /\ hdr.out = hdr.in

\* C4: with destinations of at least one byte on both readers, the bytes a
\* CompressReader gave before its io.EOF decode, through a DecompressReader,
\* to the source: no Read fails, a Read of the DecompressReader that returns
\* io.EOF returns 0 bytes after all the source was delivered, and once all of
\* it is delivered the next Read returns 0 bytes and io.EOF.
C4_PipeRoundTrip ==
    (pipe.crEOF /\ ~pipe.zeroDst)
        => /\ ~pipe.failed
           /\ pipe.dres.err = "EOF" => (pipe.delivered = pipe.source /\ pipe.dres.n = 0)
           /\ pipe.delivered = pipe.source =>
                 \A dstLen \in 1..MaxDst :
                     /\ DecompressReader_Read(dr, pipe.mid, pipe.dpos, dstLen).n = 0
                     /\ DecompressReader_Read(dr, pipe.mid, pipe.dpos, dstLen).err = "EOF"

\* Two blocks and more, read back whole, the last Read returning io.EOF.
C4_Witness ==
    /\ pipe.crEOF /\ ~pipe.zeroDst
    /\ Len(pipe.source) > 2 * streamingBlockSize - 1
    /\ pipe.delivered = pipe.source
    /\ pipe.dres.err = "EOF" /\ pipe.dres.n = 0

\* The source, pos bytes of it consumed, ends inside a frame: in the length,
\* or before the last of the bytes a length announces (a length that fits the
\* compressed-input buffer).
TruncatedAt(src, pos) ==
    /\ Len(src) - pos > 0
    /\ \/ Len(src) - pos < 4
       \/ /\ Uint32(SubSeq(src, pos + 1, pos + 4)) <= boundedStreamingBlockSize
          /\ Len(src) - pos < 4 + Uint32(SubSeq(src, pos + 1, pos + 4))

\* C11: a Read that goes to a source ending inside a frame returns an error
\* other than io.EOF (stated for the reader and for the DecompressReader).
C11_TruncationReported ==
    /\ (rres.work.srcReads > 0 /\ TruncatedAt(sink, rres.pos0))
          => rres.err \notin {"nil", "EOF"}
    /\ (pipe.dres.work.srcReads > 0 /\ TruncatedAt(pipe.mid, pipe.dres.pos0))
          => pipe.dres.err \notin {"nil", "EOF"}

\* C12: a Read whose codec call reported a negative size returns the error
\* "error decompressing", puts no byte in dst and leaves no pending tail (for
\* the DecompressReader, no unread output).
C12_NegativeSizeIsError ==
    /\ (rres.work.codecCalls = 1 /\ rres.work.decompressed < 0)
          => /\ rres.err = "error decompressing"
             /\ rres.data = <<>>
             /\ r.pendingNil
    /\ (pipe.dres.dst > 0 /\ pipe.dres.work.codecCalls = 1
            /\ pipe.dres.work.decompressed < 0)
          => /\ pipe.dres.err = "error decompressing"
             /\ pipe.dres.data = <<>>
             /\ dr.outputBuffer.off = dr.outputBuffer.len

\* Both decoders stopped at a malformed second frame, the first one delivered.
C12_Witness ==
    /\ rres.work.codecCalls = 1 /\ rres.work.decompressed < 0
    /\ Len(hist.delivered) > 0
    /\ rres.err = "error decompressing"
    /\ pipe.dres.dst > 0 /\ pipe.dres.work.codecCalls = 1
    /\ pipe.dres.work.decompressed < 0
    /\ Len(pipe.delivered) > 0

\* C13: no Read of either decoder returns a negative byte count.
C13_CountNeverNegative ==
    /\ rres.n >= 0
    /\ pipe.dres.n >= 0

\* C14: whatever length a frame announces, Read returns a count and an error
\* value: it does not stop on an index out of the compressed-input buffer.
C14_ReadAlwaysReturns ==
    /\ rres.err # "panic"
    /\ pipe.dres.err # "panic"

\* C15: for an input of fewer than 4 bytes UncompressHdr and UncompressAllocHdr
\* return the too-short error without a call of the block codec, and
\* UncompressAllocHdr returns its first argument as it was.
C15_TooShort ==
    (hdr.stage \in {"uncompressed", "allocated"} /\ Len(hdr.packed) < 4)
        => /\ hdr.uerr = "input too short to contain a length header"
           /\ hdr.codec = 0
           /\ hdr.stage = "allocated" => hdr.out = hdr.dst

\* Three bytes handed to UncompressAllocHdr with a destination that holds data.
C15_Witness ==
    /\ hdr.stage = "allocated"
    /\ Len(hdr.packed) = 3
    /\ Len(hdr.dst) = MaxDst
    /\ hdr.out = hdr.dst
    /\ hdr.uerr = "input too short to contain a length header"

\* C16: when the header holds 0, UncompressAllocHdr returns a zero-length
\* result and no error, without a call of the block codec, whatever follows
\* the header.
C16_ZeroLengthHeader ==
    (hdr.stage = "allocated" /\ Len(hdr.packed) >= 4
        /\ Uint32(SubSeq(hdr.packed, 1, 4)) = 0)
        => /\ hdr.uerr = "nil"
           /\ hdr.out = <<>>
           /\ hdr.codec = 0

\* The packed empty message with one byte more, and a destination that holds data.
C16_Witness ==
    /\ hdr.stage = "allocated"
    /\ hdr.packed = Append(CompressAllocHdr(<<>>).out, 0)
    /\ Len(hdr.dst) > 0
    /\ hdr.out = <<>>
    /\ hdr.uerr = "nil"

\* C17: CompressHdr(dst, src) with len(dst) >= 4 puts len(src), little-endian,
\* in dst[0:4] and returns 4 plus what the block codec returns for src and
\* dst[4:]; when that is not 0, dst[4:count] is the codec's output; with dst
\* of CompressBoundHdr(src) bytes it is never 0, for the empty src either.
C17_CompressHdrLayout ==
    (hdr.stage = "written" /\ Len(hdr.dst) >= 4)
        => /\ hdr.out[1] = Len(hdr.in) % 256
           /\ hdr.out[2] = (Len(hdr.in) \div 256) % 256
           /\ hdr.out[3] = (Len(hdr.in) \div 65536) % 256
           /\ hdr.out[4] = Len(hdr.in) \div 16777216
           /\ Len(hdr.out) = Len(hdr.dst)
           /\ hdr.count = 4 + LZ4_compress_default(hdr.in, Len(hdr.dst) - 4).n
           /\ hdr.cerr = "nil" =>
                 SubSeq(hdr.out, 5, hdr.count)
                     = LZ4_compress_default(hdr.in, Len(hdr.dst) - 4).out
           /\ Len(hdr.dst) >= CompressBoundHdr(Len(hdr.in)) =>
                 (hdr.cerr = "nil" /\ hdr.count > 4)

\* The empty input compressed into a buffer of CompressBoundHdr bytes: 5 bytes.
C17_Witness ==
    /\ hdr.stage = "written"
    /\ hdr.in = <<>>
    /\ Len(hdr.dst) = CompressBoundHdr(0)
    /\ hdr.count = 5
    /\ hdr.cerr = "nil"

\* C18: CompressBound of n bytes is n + n/255 + 16 (16, 17, 270, 272 and 528
\* for 0, 1, 254, 255 and 510 bytes), and CompressBoundHdr is 4 more.
C18_CompressBound ==
    hdr.stage = "bounded"
        => /\ hdr.bound = hdr.n + hdr.n \div 255 + 16
           /\ hdr.n = 0 => hdr.bound = 16
           /\ hdr.n = 1 => hdr.bound = 17
           /\ hdr.n = 254 => hdr.bound = 270
           /\ hdr.n = 255 => hdr.bound = 272
           /\ hdr.n = 510 => hdr.bound = 528
           /\ hdr.boundHdr = hdr.bound + 4

\* The bound of 510 bytes computed.
C18_Witness ==
    /\ hdr.stage = "bounded"
    /\ hdr.n = 510
    /\ hdr.bound = 528
    /\ hdr.boundHdr = 532

\* C19: the first Close of an instance, whatever was done with it before,
\* returns nil and has released its history context and each of its buffers
\* (once each, and nothing else).
C19_CloseReleasesAll ==
    heap.closes = 1
        => /\ heap.err = "nil"
           /\ \A x \in Owned(heap.kind) : heap.freed[x] = 1
           /\ \A x \in Allocations \ Owned(heap.kind) : heap.freed[x] = 0
           /\ heap.streamNil

\* A reader closed after a Read that failed.
C19_Witness ==
    /\ heap.kind = "reader"
    /\ heap.closes = 1
    /\ hist.readFailed
    /\ heap.freed["left"] = 1 /\ heap.freed["right"] = 1 /\ heap.freed["lz4Stream"] = 1

\* C20: whatever is called on an instance, no allocation of it is released
\* more than once.
C20_ReleasedAtMostOnce ==
    \A x \in Allocations : heap.freed[x] <= 1

\* A reader run alone over src, from r0 with pos bytes consumed, with
\* destinations of a whole block, until stopPos bytes are consumed: the blocks
\* it decoded and the reader it has become.  fuel bounds the calls.
RECURSIVE Solo(_, _, _, _, _, _)
SoloNext(src, stopPos, decoded, fuel, res) ==
    Solo(res.r, src, res.pos, stopPos, decoded \o res.work.block, fuel - 1)

Solo(r0, src, pos, stopPos, decoded, fuel) ==
    IF pos >= stopPos \/ fuel = 0 THEN [decoded |-> decoded, r |-> r0]
    ELSE SoloNext(src, stopPos, decoded, fuel,
                  reader_Read(r0, src, pos, streamingBlockSize))

\* The reader run alone as far as the reader of the state has come.
SoloHere == Solo(NewReader, sink, 0, rpos, <<>>, Len(sink) + 1)

\* What of one reader another may differ in: the tail not yet delivered.
SoloView(rd) == [rd EXCEPT !.pending = <<>>, !.pendingNil = TRUE]

Grown == ParseFrames(SubSeq(sink, wres.before + 1, Len(sink)), <<>>)

\* The first n of the codec calls of the last Write call produced, in order,
\* the first n frames that it added to the sink.
FramesOfCalls(n, calls, frames) ==
    /\ Len(frames) = n
    /\ \A k \in 1..n : frames[k] = LZ4_encode(calls[k].dict, calls[k].src, 1, <<>>)

RECURSIVE TotalLen(_, _)
\* The total length of the first n blocks of calls.
TotalLen(calls, n) == IF n = 0 THEN 0 ELSE TotalLen(calls, n - 1) + Len(calls[n].src)

\* C22: when a write to the sink fails during Write, that is the only failed
\* write and the last thing the call does: one codec call for each block
\* before it and one for the block it was writing, the sink's error returned
\* as it is, and the count returned is the total length of the blocks of this
\* call whose frames are whole in the sink.
C22_SinkErrorStopsWrite ==
    wres.sinkFailures > 0 =>
        /\ wres.sinkFailures = 1
        /\ wres.err = "sink error"
        /\ wres.frames >= 1
        /\ wres.sinkWrites \in {2 * wres.frames - 1, 2 * wres.frames}
        /\ FramesOfCalls(wres.frames - 1, LastCalls, Grown.frames)
        /\ wres.n = TotalLen(LastCalls, wres.frames - 1)
        /\ wres.n = (wres.frames - 1) * streamingBlockSize
        /\ wres.n < Len(wres.src)

\* The payload of the second frame of a call is refused: one frame is whole.
C22_Witness ==
    /\ wres.sinkFailures = 1
    /\ wres.frames = 2
    /\ wres.sinkWrites = 4
    /\ wres.n = streamingBlockSize
    /\ Len(sink) > wres.before + 8

\* C30: when the streaming compressor reports a size that is not positive,
\* Write returns the compression error with the length of the blocks before
\* that one; the sink has received the frames of those blocks and nothing for
\* that block, and the counter of compressed bytes has grown by those frames
\* only.
C30_CompressionError ==
    (wres.frames >= 1 /\ LastCalls[wres.frames].written <= 0) =>
        /\ wres.err = "error compressing"
        /\ wres.n = (wres.frames - 1) * streamingBlockSize
        /\ wres.sinkWrites = 2 * (wres.frames - 1)
        /\ Grown.ok
        /\ FramesOfCalls(wres.frames - 1, LastCalls, Grown.frames)
        /\ w.totalCompressedWritten - wres.counterBefore = Len(sink) - wres.before

\* The compressor fails on the second block of the second Write call.
C30_Witness ==
    /\ wres.frames = 2
    /\ LastCalls[2].written <= 0
    /\ hist.nWrites = 2
    /\ wres.before > 0
    /\ Len(sink) > wres.before
    /\ w.totalCompressedWritten = Len(sink)

\* C23: given the same stream and the same sequence of Read calls, the
\* DecompressReader returns what the reader returns: the same count, the same
\* bytes and the same error, call by call.
C23_SameResults ==
    /\ pipe.dres.n = rres.n
    /\ pipe.dres.data = rres.data
    /\ pipe.dres.err = rres.err

\* C24: a Read of the CompressReader made while framed bytes are buffered
\* neither reads the source nor calls the codec, and the bytes given so far
\* followed by the bytes still buffered stay the same sequence: each framed
\* byte is given once, in order.
C24_DrainsFirst ==
    [][(~pipe.crEOF /\ Len(cr.outputBuffer) > 0)
          => /\ pipe'.cres.work.srcReads = 0
             /\ pipe'.cres.work.codecCalls = 0
             /\ pipe'.spos = pipe.spos
             /\ pipe'.mid \o cr'.outputBuffer = pipe.mid \o cr.outputBuffer]_vars

\* C25: a Read of the CompressReader returns io.EOF only when the source is
\* used up and no framed byte is buffered: the bytes given are then whole
\* frames, one for each block of the source, none for an empty source.
C25_EOFOnlyWhenDrained ==
    pipe.cres.err = "EOF" =>
        /\ pipe.cres.n = 0
        /\ pipe.spos = Len(pipe.source)
        /\ Len(cr.outputBuffer) = 0
        /\ ParseFrames(pipe.mid, <<>>).ok
        /\ Len(ParseFrames(pipe.mid, <<>>).frames) = BlocksOf(Len(pipe.source))

\* C26: Close writes nothing to the sink: once a Writer is closed the sink
\* still holds the frames of the blocks written, one for each, and nothing
\* else, and has received the two Write calls of each frame and no other.
C26_CloseWritesNothing ==
    (heap.kind = "Writer" /\ heap.closes >= 1) =>
        /\ w.underlyingWriter.calls = 2 * Len(hist.calls)
        /\ Len(sink) = w.totalCompressedWritten
        /\ FramesOfCalls(Len(hist.calls), hist.calls, ParseFrames(sink, <<>>).frames)
        /\ ParseFrames(sink, <<>>).ok

\* A Writer closed after it wrote two blocks and more.
C26_Witness ==
    /\ heap.kind = "Writer"
    /\ heap.closes = 1
    /\ Len(hist.calls) >= 2
    /\ Len(sink) = w.totalCompressedWritten

\* C27: Uncompress of a compressed input into a destination shorter than the
\* original, of any length down to 0, returns the error and a negative size.
C27_ShortDestinationFails ==
    (hdr.stage = "unpacked" /\ hdr.cerr = "nil" /\ hdr.dstLen < Len(hdr.in)) =>
        /\ hdr.uerr = "Malformed compression stream"
        /\ hdr.n < 0

\* An input that compressed to fewer bytes than it has, decompressed into a
\* destination one byte short.
C27_Witness ==
    /\ hdr.stage = "unpacked"
    /\ hdr.cerr = "nil"
    /\ Len(hdr.packed) < Len(hdr.in)
    /\ hdr.dstLen = Len(hdr.in) - 1
    /\ hdr.uerr = "Malformed compression stream"

RECURSIVE ConcatBlocks(_, _)
\* The first n blocks of calls, one after the other.
ConcatBlocks(calls, n) ==
    IF n = 0 THEN <<>> ELSE ConcatBlocks(calls, n - 1) \o calls[n].src

\* The number of whole frames in the first pos bytes of the sink.
FramesBefore(pos) == Len(ParseFrames(SubSeq(sink, 1, pos), <<>>).frames)

\* The block that is the reader's history context.
reader_prefix == SubSeq(r[r.lz4Stream.prefixSlot], 1, r.lz4Stream.prefixSize)

\* C28: blocks reach the history contexts in the order they were produced.
\* The blocks the Writer compressed are, in order, the bytes written, across
\* Write calls; each was compressed against the block before it; the frames
\* in the sink are theirs, in the same order; and the reader, having taken k
\* frames, has decoded the first k blocks in order and holds the k-th as its
\* history context.
C28_BlocksInOrder ==
    /\ ConcatBlocks(hist.calls, Len(hist.calls)) = hist.written
    /\ \A k \in 2..Len(hist.calls) : hist.calls[k].dict = hist.calls[k - 1].src
    /\ FramesOfCalls(Len(hist.calls), hist.calls, ParseFrames(sink, <<>>).frames)
    /\ hist.decoded = ConcatBlocks(hist.calls, FramesBefore(rpos))
    /\ FramesBefore(rpos) > 0 => reader_prefix = hist.calls[FramesBefore(rpos)].src

\* Three blocks that differ, of two Write calls, two of them decoded.
C28_Witness ==
    /\ Len(hist.calls) >= 3
    /\ hist.nWrites >= 2
    /\ wres.frames >= 2
    /\ hist.calls[1].src # hist.calls[2].src
    /\ FramesBefore(rpos) = 2

\* Read after Read on a reader with destinations of dstLen bytes, until one
\* returns an error: what each returned before, and that error with its count.
RECURSIVE ReadEach(_, _, _, _, _, _)
ReadEachNext(src, dstLen, reads, fuel, res) ==
    IF res.err # "nil" THEN [reads |-> reads, err |-> res.err, n |-> res.n]
    ELSE ReadEach(res.r, src, res.pos, dstLen, Append(reads, res.data), fuel - 1)

ReadEach(r0, src, pos, dstLen, reads, fuel) ==
    IF fuel = 0 THEN [reads |-> reads, err |-> "stalled", n |-> 0]
    ELSE ReadEachNext(src, dstLen, reads, fuel, reader_Read(r0, src, pos, dstLen))

\* The same on a DecompressReader.
RECURSIVE DReadEach(_, _, _, _, _, _)
DReadEachNext(src, dstLen, reads, fuel, res) ==
    IF res.err # "nil" THEN [reads |-> reads, err |-> res.err, n |-> res.n]
    ELSE DReadEach(res.d, src, res.pos, dstLen, Append(reads, res.data), fuel - 1)

DReadEach(d0, src, pos, dstLen, reads, fuel) ==
    IF fuel = 0 THEN [reads |-> reads, err |-> "stalled", n |-> 0]
    ELSE DReadEachNext(src, dstLen, reads, fuel,
                       DecompressReader_Read(d0, src, pos, dstLen))

\* The blocks written, in order.
Blocks == [k \in 1..Len(hist.calls) |-> hist.calls[k].src]

\* Reads that give the blocks one by one and then io.EOF.
BlockByBlock(res) == res.reads = Blocks /\ res.err = "EOF" /\ res.n = 0

\* The length of the first n blocks together.
BlocksLen(n) == Len(ConcatBlocks(hist.calls, n))

\* C29: the bytes a Read of the reader returns lie in one block, the Read
\* having decoded one frame at most; and with a destination that every block
\* written fits in, the k-th Read of a decoder over the sink returns the
\* k-th block, and the Read after the last block returns 0 and io.EOF.
C29_OneFramePerRead ==
    /\ rres.work.codecCalls <= 1
    /\ rres.n > 0 =>
          \E k \in 1..Len(hist.calls) :
              /\ BlocksLen(k - 1) <= Len(hist.delivered) - rres.n
              /\ Len(hist.delivered) <= BlocksLen(k)
    /\ \A dstLen \in 1..MaxDst :
          (\A k \in 1..Len(hist.calls) : Len(hist.calls[k].src) <= dstLen)
              => /\ BlockByBlock(ReadEach(NewReader, sink, 0, dstLen, <<>>,
                                          Len(hist.calls) + 1))
                 /\ BlockByBlock(DReadEach(NewDecompressReader, sink, 0, dstLen, <<>>,
                                           Len(hist.calls) + 1))

\* Blocks of different lengths, the second just returned whole by a Read.
C29_Witness ==
    /\ Len(hist.calls) >= 3
    /\ Len(hist.calls[1].src) # Len(hist.calls[2].src)
    /\ FramesBefore(rpos) = 2
    /\ rres.data = hist.calls[2].src
    /\ hist.delivered = ConcatBlocks(hist.calls, 2)

\* The slot the reader decoded into at the call that switched it to rd.
reader_target(rd) == IF rd.isLeft THEN "right" ELSE "left"

\* C31: a decoder that holds a decoded block as its history context never
\* decodes the next frame into the slot of that block, whatever the Reads
\* before returned.
C31_NeverIntoHistorySlot ==
    [][/\ (r'.isLeft # r.isLeft /\ r.lz4Stream.prefixSize > 0)
            => reader_target(r') # r.lz4Stream.prefixSlot
       /\ (pipe'.dpos > pipe.dpos /\ pipe'.dres.work.codecCalls = 1
             /\ dr.lz4Stream.prefixSize > 0)
            => dr'.inpBufIndex # dr.lz4Stream.prefixSlot]_vars

\* C32: a CompressReader that holds a compressed block as its history
\* context never reads source bytes into the slot of that block, whatever the
\* Reads before returned.
C32_NeverIntoHistorySlot ==
    [][(pipe'.spos > pipe.spos /\ cr.lz4Stream.dictSize > 0)
          => cr'.inpBufIndex # cr.lz4Stream.dictSlot]_vars

\* The codec call absorbed its block into the history context.
IsAbsorbed(call) == call.written > 0

\* The blocks the Writer's history context has absorbed, in order.
Absorbed == SelectSeq(hist.calls, IsAbsorbed)

\* The first n of the blocks absorbed have their frames whole in the sink, in
\* order, and are the bytes Write reported as consumed.
FramedAndConsumed(n, absorbed, frames) ==
    /\ FramesOfCalls(n, absorbed, frames)
    /\ ConcatBlocks(absorbed, n) = hist.written

\* C33 as stated: the blocks absorbed by the history context are the blocks
\* whose frames are whole in the sink, and the sink holds whole frames only.
C33_HistoryIsSink ==
    /\ ParseFrames(sink, <<>>).ok
    /\ FramesOfCalls(Len(Absorbed), Absorbed, ParseFrames(sink, <<>>).frames)

\* C33, amended: while no write to the sink has failed, the blocks absorbed by
\* the history context are the blocks whose frames are whole in the sink, the
\* sink holds whole frames only and it decodes to the bytes consumed.  The
\* Write call in which a write to the sink fails stops there: the history
\* context has then absorbed one block more, the block of the frame that
\* failed, and the whole frames of the sink are those of the bytes consumed.
C33_HistoryAheadByOne ==
    /\ wres.sinkFailures <= 1
    /\ w.underlyingWriter.failures = 0
          => /\ ParseFrames(sink, <<>>).ok
             /\ FramedAndConsumed(Len(Absorbed), Absorbed, ParseFrames(sink, <<>>).frames)
             /\ Drain(NewReader, sink, 0, streamingBlockSize, <<>>, Len(sink) + 1)
                    = [data |-> hist.written, err |-> "EOF"]
    /\ w.underlyingWriter.failures = 1
          => /\ Len(Absorbed) >= 1
             /\ FramedAndConsumed(Len(Absorbed) - 1, Absorbed,
                                  ParseFrames(sink, <<>>).frames)

\* The payload of a second frame refused: two blocks absorbed, one frame whole
\* in the sink and a part of the second after it.
C33_Witness ==
    /\ w.underlyingWriter.failures = 1
    /\ Len(Absorbed) = 2
    /\ Len(ParseFrames(sink, <<>>).frames) = 1
    /\ ~ParseFrames(sink, <<>>).ok
    /\ Len(hist.written) = streamingBlockSize

\* C34: when UncompressAllocHdr returns no error, the buffer it returns has
\* the length the header holds, whatever destination it was given.
C34_ResultHasHeaderLength ==
    (hdr.stage = "allocated" /\ Len(hdr.packed) >= 4 /\ hdr.uerr = "nil")
        => Len(hdr.out) = Uint32(SubSeq(hdr.packed, 1, 4))

\* C35: CompressHdr into a destination that cannot hold the header and the
\* compressed input returns the error of insufficient space, for a destination
\* of fewer than 4 bytes too.
C35_TooSmallIsError ==
    (hdr.stage = "written"
        /\ Len(hdr.dst) < blockHeaderSize + Len(LZ4_encode(<<>>, hdr.in, 1, <<>>)))
        => hdr.cerr = "Insufficient space for compression"

\* What a Read that returned res took from src, the source then standing at
\* pos: 4 bytes and the length they announce when it decoded a frame, nothing
\* when it read no source, and never more than the frame at its start.
ConsumesOneFrame(res, src, pos) ==
    /\ res.work.codecCalls = 1
          => pos - res.pos0 = blockHeaderSize
                                + Uint32(SubSeq(src, res.pos0 + 1, res.pos0 + 4))
    /\ res.work.srcReads = 0 => pos = res.pos0
    /\ (res.work.srcReads > 0 /\ Len(src) - res.pos0 >= blockHeaderSize)
          => pos - res.pos0 - blockHeaderSize
                 <= Uint32(SubSeq(src, res.pos0 + 1, res.pos0 + 4))
    /\ pos <= Len(src)

\* C36: a Read of a decoder that decodes a frame takes from the source the 4
\* bytes of the length and the bytes the length announces, no more; a Read
\* served from the tail of the block before takes none.
C36_ConsumesOneFrame ==
    /\ ConsumesOneFrame(rres, sink, rpos)
    /\ ConsumesOneFrame(pipe.dres, pipe.mid, pipe.dpos)

\* The reader has just decoded a frame that another follows, and the
\* DecompressReader has just served a Read from its buffer.
C36_Witness ==
    /\ rres.work.codecCalls = 1
    /\ rres.err = "nil"
    /\ rpos < Len(sink)
    /\ rpos - rres.pos0 > blockHeaderSize
    /\ pipe.dres.work.srcReads = 0
    /\ pipe.dres.n > 0
    /\ pipe.dpos > 0

\* C37: a Read of the reader into an empty dst returns 0 and no error, and
\* leaves the reader as it was: no byte of the source is taken, the codec is
\* not called, the tail and the choice of buffer stay.
C37_EmptyDstChangesNothing ==
    [][(hist'.lastOp = "Read" /\ rres'.dst = 0)
          => /\ rres'.n = 0
             /\ rres'.err = "nil"
             /\ rres'.work = NoWork
             /\ rpos' = rpos
             /\ r' = r]_vars

\* An empty dst was read into while a tail was kept and while the source had
\* frames left.
C37_Witness ==
    /\ hist.lastOp = "Read"
    /\ rres.dst = 0
    /\ rres.err = "nil"
    /\ ~r.pendingNil
    /\ rpos < Len(sink)

\* C38: over a stream a Writer made, a loop of Reads into a dst that is not
\* empty comes to a Read that returns the end of the stream, and every Read
\* that returns no error returns at least one byte; so it is for both decoders.
C38_DrainEnds ==
    /\ [](rres.err = "nil" => rres.n >= 1)
    /\ [](pipe.dres.err = "nil" => pipe.dres.n >= 1)
    /\ <>(rres.err = "EOF")
    /\ <>(pipe.dres.err = "EOF")

\* Both decoders returned the end of a stream of several frames, after Reads
\* that took a block in more than one piece.
C38_Witness ==
    /\ rres.err = "EOF"
    /\ pipe.dres.err = "EOF"
    /\ rpos = Len(sink)
    /\ Len(hist.delivered) > streamingBlockSize
    /\ hist.delivered = hist.decoded
    /\ pipe.delivered = hist.delivered
    /\ rres.dst < streamingBlockSize

\* s is the last n bytes of t.
IsSuffix(s, t) == Len(s) <= Len(t) /\ s = SubSeq(t, Len(t) - Len(s) + 1, Len(t))

\* C39: the tail the reader keeps is either absent, or it holds at least one
\* byte and fewer than a full block: it is the end, and not the whole, of the
\* block decoded last, which is no longer than streamingBlockSize.
C39_TailIsProperSuffix ==
    /\ r.pendingNil => r.pending = <<>>
    /\ ~r.pendingNil
          => /\ Len(r.pending) >= 1
             /\ Len(r.pending) <= streamingBlockSize - 1
             /\ Len(reader_prefix) <= streamingBlockSize
             /\ Len(r.pending) < Len(reader_prefix)
             /\ IsSuffix(r.pending, reader_prefix)

\* The longest tail there is is kept: all but the first byte of a full block.
C39_Witness ==
    /\ ~r.pendingNil
    /\ Len(r.pending) = streamingBlockSize - 1
    /\ rres.work.codecCalls = 1
    /\ rres.n = 1

=============================================================================
